---------------------------- MODULE Spec2Model ----------------------------
(***************************************************************************)
(* A model of the bill synchronisation pipeline of api/sync-bills.js: the  *)
(* find-or-create reconciler over the record store, the legislator,        *)
(* subject and bill sync units built on it, and the text normalisers they  *)
(* use.  Every remote call (an upstream API request, a store query, update *)
(* or create) is one atomic step; the local code between two awaits runs   *)
(* with the call that precedes it.                                         *)
(***************************************************************************)
EXTENDS Integers, Sequences, FiniteSets, TLC

VARIABLES
  upstream,      \* what the upstream API serves: jurisdiction -> list of bills
  store,         \* the record store: table name -> sequence of records
  nextId,        \* the next internal record ID the store hands out
  inv,           \* per invocation of syncBills: its control point and locals
  runs,          \* invocations started so far
  runsLeft,      \* invocations the environment may still start
  failuresLeft,  \* remote calls the environment may still fail
  sched,         \* the run of the scheduled endpoint
  calc           \* the call of a text helper under evaluation

vars == <<upstream, store, nextId, inv, runs, runsLeft, failuresLeft, sched, calc>>

(***************************************************************************)
(* Text.  A JavaScript string is modelled as a sequence of one-character   *)
(* strings where the code looks inside it (subject labels), and as a TLA+  *)
(* string where the code only copies and compares it (IDs, names).         *)
(***************************************************************************)

LowerChars ==
  <<"a","b","c","d","e","f","g","h","i","j","k","l","m","n","o","p","q","r","s","t","u","v","w","x","y","z">>

UpperChars ==
  <<"A","B","C","D","E","F","G","H","I","J","K","L","M","N","O","P","Q","R","S","T","U","V","W","X","Y","Z">>


IsLower(c) == \E k \in 1..Len(LowerChars) : LowerChars[k] = c

IsUpper(c) == \E k \in 1..Len(UpperChars) : UpperChars[k] = c

ToUpperChar(c) ==
  IF IsLower(c) THEN UpperChars[CHOOSE k \in 1..Len(LowerChars) : LowerChars[k] = c] ELSE c

ToLowerChar(c) ==
  IF IsUpper(c) THEN LowerChars[CHOOSE k \in 1..Len(UpperChars) : UpperChars[k] = c] ELSE c

ToLowerCase(s) == [k \in 1..Len(s) |-> ToLowerChar(s[k])]

Min(a, b) == IF a < b THEN a ELSE b

\* Array.prototype.slice(from, to) with 0-based from, exclusive to.
Slice(s, from, to) == SubSeq(s, from + 1, Min(to, Len(s)))

\* The TLA+ string spelled by a sequence of characters.
RECURSIVE Show(_)
Show(s) == IF s = <<>> THEN "" ELSE Head(s) \o Show(Tail(s))

\* String.prototype.includes for a single character.
IncludesChar(s, c) == \E k \in 1..Len(s) : s[k] = c

\* String.prototype.includes: sub occurs in s as a contiguous run.
Includes(s, sub) ==
  \E k \in 0..(Len(s) - Len(sub)) : \A j \in 1..Len(sub) : s[k + j] = sub[j]

\* String.prototype.split(sep) for a one-character separator.
RECURSIVE Split(_, _)
Split(s, sep) ==
  IF ~IncludesChar(s, sep) THEN <<s>>
  ELSE LET k == CHOOSE i \in 1..Len(s) : s[i] = sep /\ \A j \in 1..(i - 1) : s[j] # sep
       IN  <<SubSeq(s, 1, k - 1)>> \o Split(SubSeq(s, k + 1, Len(s)), sep)

\* Array.prototype.join(sep).
RECURSIVE Join(_, _)
Join(words, sep) ==
  IF words = <<>> THEN <<>>
  ELSE IF Len(words) = 1 THEN words[1]
  ELSE words[1] \o sep \o Join(Tail(words), sep)

\* word.charAt(0).toUpperCase() + word.slice(1).toLowerCase()
TitleCase(word) ==
  IF word = <<>> THEN <<>> ELSE <<ToUpperChar(word[1])>> \o ToLowerCase(Tail(word))

\* .replace(/([a-z])([A-Z])/g, '$1 $2'): a left-to-right scan, each match consumed.
RECURSIVE ReplaceCamel(_)
ReplaceCamel(s) ==
  IF s = <<>> THEN <<>>
  ELSE IF Len(s) >= 2 /\ IsLower(s[1]) /\ IsUpper(s[2])
       THEN <<s[1], " ", s[2]>> \o ReplaceCamel(SubSeq(s, 3, Len(s)))
       ELSE <<s[1]>> \o ReplaceCamel(Tail(s))

\* .replace(/([A-Z])([A-Z][a-z])/g, '$1 $2')
RECURSIVE ReplacePascal(_)
ReplacePascal(s) ==
  IF s = <<>> THEN <<>>
  ELSE IF Len(s) >= 3 /\ IsUpper(s[1]) /\ IsUpper(s[2]) /\ IsLower(s[3])
       THEN <<s[1], " ", s[2], s[3]>> \o ReplacePascal(SubSeq(s, 4, Len(s)))
       ELSE <<s[1]>> \o ReplacePascal(Tail(s))

\* formatted.charAt(0).toUpperCase() + formatted.slice(1)
CapitalizeFirst(s) == IF s = <<>> THEN <<>> ELSE <<ToUpperChar(s[1])>> \o Tail(s)


\* The override table of formatSubjectName, keyed by the lower-cased result.
commonWords ==
  << [key |-> <<"l","a","w","e","n","f","o","r","c","e","m","e","n","t">>,
       value |-> <<"L","a","w"," ","E","n","f","o","r","c","e","m","e","n","t">>],
     [key |-> <<"p","u","b","l","i","c","s","a","f","e","t","y">>,
       value |-> <<"P","u","b","l","i","c"," ","S","a","f","e","t","y">>],
     [key |-> <<"r","a","c","i","a","l","a","n","d","i","d","e","n","t","i","t","y","p","r","o","f","i","l","i","n","g">>,
       value |-> <<"R","a","c","i","a","l"," ","A","n","d"," ","I","d","e","n","t","i","t","y"," ","P","r","o","f","i","l","i","n","g">>],
     [key |-> <<"f","o","o","d","v","e","n","d","o","r","s","a","n","d","f","a","c","i","l","i","t","i","e","s">>,
       value |-> <<"F","o","o","d"," ","V","e","n","d","o","r","s"," ","A","n","d"," ","F","a","c","i","l","i","t","i","e","s">>],
     [key |-> <<"e","n","f","o","r","c","e","m","e","n","t","a","c","t","i","v","i","t","i","e","s">>,
       value |-> <<"E","n","f","o","r","c","e","m","e","n","t"," ","A","c","t","i","v","i","t","i","e","s">>],
     [key |-> <<"p","r","e","a","p","p","r","e","n","t","i","c","e","s","h","i","p","p","r","a","t","h","w","a","y">>,
       value |-> <<"P","r","e","-","A","p","p","r","e","n","t","i","c","e","s","h","i","p"," ","P","a","t","h","w","a","y">>],
     [key |-> <<"p","e","a","c","e","o","f","f","i","c","e","r","s">>,
       value |-> <<"P","e","a","c","e"," ","O","f","f","i","c","e","r","s">>],
     [key |-> <<"c","o","n","f","i","d","e","n","t","i","a","l","i","t","y","o","f","r","e","c","o","r","d","s">>,
       value |-> <<"C","o","n","f","i","d","e","n","t","i","a","l","i","t","y"," ","O","f"," ","R","e","c","o","r","d","s">>],
     [key |-> <<"s","e","x","u","a","l","a","s","s","a","u","l","t","f","o","r","e","n","s","i","c","e","v","i","d">>,
       value |-> <<"S","e","x","u","a","l"," ","A","s","s","a","u","l","t"," ","F","o","r","e","n","s","i","c"," ","E","v","i","d","e","n","c","e">>],
     [key |-> <<"c","a","l","i","f","o","r","n","i","a","s","c","i","e","n","c","e","a","n","d","h","e","a","l","t","h">>,
       value |-> <<"C","a","l","i","f","o","r","n","i","a"," ","S","c","i","e","n","c","e"," ","A","n","d"," ","H","e","a","l","t","h">>],
     [key |-> <<"e","c","o","n","o","m","i","c","d","e","v","e","l","o","p","m","e","n","t">>,
       value |-> <<"E","c","o","n","o","m","i","c"," ","D","e","v","e","l","o","p","m","e","n","t">>],
     [key |-> <<"i","n","d","u","s","t","r","y","s","t","r","a","t","e","g","i","e","s">>,
       value |-> <<"I","n","d","u","s","t","r","y"," ","S","t","r","a","t","e","g","i","e","s">>],
     [key |-> <<"e","q","u","i","t","a","b","l","e","c","l","e","a","n","e","n","e","r","g","y","s","u","p">>,
       value |-> <<"E","q","u","i","t","a","b","l","e"," ","C","l","e","a","n"," ","E","n","e","r","g","y"," ","S","u","p","p","l","y">>] >>

\* lowered is one of the table's own keys.
IsKey(lowered) == \E k \in 1..Len(commonWords) : commonWords[k].key = lowered

\* The table is an object literal, so a lookup also finds what every object
\* inherits.  Of the inherited names only this one can be spelled by a
\* lower-cased result (the others hold a capital or an underscore).
InheritedKeys == { <<"c","o","n","s","t","r","u","c","t","o","r">> }

\* The inherited member: the Object function, written as a template literal
\* or a string concatenation spells it.
ObjectFunction == << "function Object() { [native code] }" >>

\* line 376: commonWords[lowerFormatted] is truthy.
HasOverride(lowered) == IsKey(lowered) \/ lowered \in InheritedKeys

\* line 378: commonWords[lowerFormatted].
Override(lowered) ==
  IF IsKey(lowered)
  THEN commonWords[CHOOSE k \in 1..Len(commonWords) : commonWords[k].key = lowered].value
  ELSE ObjectFunction

\* formatSubjectName: the canonical display name of a raw subject label.
formatSubjectName(subject) ==
  LET words     == Split(subject, "_")
      formatted == IF IncludesChar(subject, "_")
                   THEN Join([k \in 1..Len(words) |-> TitleCase(words[k])], <<" ">>)
                   ELSE CapitalizeFirst(ReplacePascal(ReplaceCamel(subject)))
      lowerFormatted == ToLowerCase(formatted)
  IN  IF HasOverride(lowerFormatted) THEN Override(lowerFormatted) ELSE formatted

\* The keyword table of categorizeSubject, in the order its entries are tried.
categories ==
  << [category |-> "Health",
       keywords |-> << <<"h","e","a","l","t","h">>,
                     <<"h","e","a","l","t","h","c","a","r","e">>,
                     <<"m","e","d","i","c","a","l">>,
                     <<"h","o","s","p","i","t","a","l">>,
                     <<"m","e","d","i","c","a","r","e">>,
                     <<"m","e","d","i","c","a","i","d">> >>],
     [category |-> "Education",
       keywords |-> << <<"e","d","u","c","a","t","i","o","n">>,
                     <<"s","c","h","o","o","l">>,
                     <<"u","n","i","v","e","r","s","i","t","y">>,
                     <<"t","e","a","c","h","e","r">>,
                     <<"s","t","u","d","e","n","t">> >>],
     [category |-> "Environment",
       keywords |-> << <<"e","n","v","i","r","o","n","m","e","n","t">>,
                     <<"c","l","i","m","a","t","e">>,
                     <<"e","n","e","r","g","y">>,
                     <<"p","o","l","l","u","t","i","o","n">>,
                     <<"c","o","n","s","e","r","v","a","t","i","o","n">> >>],
     [category |-> "Economy",
       keywords |-> << <<"t","a","x">>,
                     <<"b","u","d","g","e","t">>,
                     <<"f","i","n","a","n","c","e">>,
                     <<"e","c","o","n","o","m","y">>,
                     <<"b","u","s","i","n","e","s","s">>,
                     <<"c","o","m","m","e","r","c","e">> >>],
     [category |-> "Justice",
       keywords |-> << <<"c","r","i","m","e">>,
                     <<"c","r","i","m","i","n","a","l">>,
                     <<"j","u","s","t","i","c","e">>,
                     <<"c","o","u","r","t">>,
                     <<"p","o","l","i","c","e">>,
                     <<"p","r","i","s","o","n">> >>],
     [category |-> "Transportation",
       keywords |-> << <<"t","r","a","n","s","p","o","r","t","a","t","i","o","n">>,
                     <<"h","i","g","h","w","a","y">>,
                     <<"r","o","a","d">>,
                     <<"t","r","a","n","s","i","t">>,
                     <<"v","e","h","i","c","l","e">> >>] >>

CategoryMatches(k, subjectLower) ==
  \E j \in 1..Len(categories[k].keywords) : Includes(subjectLower, categories[k].keywords[j])

\* A variant that compares the label as it is spelled.
categorizeSubjectCaseSensitive(subject) ==
  LET hits == {k \in 1..Len(categories) : CategoryMatches(k, subject)}
  IN  IF hits = {} THEN "Other"
      ELSE categories[CHOOSE k \in hits : \A j \in hits : k <= j].category

\* categorizeSubject: the first category one of whose keywords the label contains.
categorizeSubject(subject) ==
  LET subjectLower == ToLowerCase(subject)
      hits == {k \in 1..Len(categories) : CategoryMatches(k, subjectLower)}
  IN  IF hits = {} THEN "Other"
      ELSE categories[CHOOSE k \in hits : \A j \in hits : k <= j].category

(***************************************************************************)
(* JavaScript values.  Undefined stands for a property the upstream        *)
(* document does not carry.                                                *)
(***************************************************************************)
Undefined == "<undefined>"

\* Boolean(v): neither undefined nor the empty string.
Truthy(v) == v # Undefined /\ v # ""

\* v || ''
OrEmpty(v) == IF Truthy(v) THEN v ELSE ""

\* `${v}` inside a template literal.
Interpolate(v) == IF v = Undefined THEN "undefined" ELSE v

\* A variant that keeps every occurrence of a repeated element.
NoDedupe(list) == list

\* [...new Set(list)]: the first occurrence of each element, in order.
RECURSIVE Unique(_)
Unique(list) ==
  IF list = <<>> THEN <<>>
  ELSE LET front == Unique(SubSeq(list, 1, Len(list) - 1))
           last  == list[Len(list)]
       IN  IF \E k \in 1..Len(front) : front[k] = last THEN front ELSE Append(front, last)

\* The set of elements of a sequence.
Range(s) == {s[k] : k \in 1..Len(s)}

\* The function with an empty domain (an object or Map with no entries).
NoFields == <<>>

\* An optional field of a record's field set: present only when cond holds.
Optional(cond, field, value) == IF cond THEN field :> value ELSE NoFields

(***************************************************************************)
(* The record store (Airtable): per table a sequence of records, each an   *)
(* internal ID and a field set.                                            *)
(***************************************************************************)
Tables == {"Bills", "Legislators", "Subjects", "States"}

\* The value of a field in a formula: an unset field reads as the empty string.
FieldOf(rec, field) == IF field \in DOMAIN rec.fields THEN rec.fields[field] ELSE ""

\* select({filterByFormula: `{field} = 'value'`}): the positions that match.
Matching(table, field, value) ==
  {k \in 1..Len(table) : FieldOf(table[k], field) = Interpolate(value)}

\* A variant of update that replaces the whole field set of the record.
UpdateRecordWhole(table, id, data) ==
  [k \in 1..Len(table) |->
     IF table[k].id = id THEN [table[k] EXCEPT !.fields = data] ELSE table[k]]

\* update(id, data): a partial update; the fields data names are overwritten.
UpdateRecord(table, id, data) ==
  [k \in 1..Len(table) |->
     IF table[k].id = id
     THEN [table[k] EXCEPT !.fields =
             [f \in DOMAIN data \cup DOMAIN @ |-> IF f \in DOMAIN data THEN data[f] ELSE @[f]]]
     ELSE table[k]]

\* A variant of create that adds nothing when a record holds the same fields.
CreateRecordUnlessPresent(table, id, data) ==
  IF \E k \in 1..Len(table) : table[k].fields = data
  THEN table
  ELSE Append(table, [id |-> id, fields |-> data])

\* A variant of create that writes over the table's last record.
CreateRecordOverLast(table, id, data) ==
  IF table = <<>> THEN <<[id |-> id, fields |-> data]>>
  ELSE [table EXCEPT ![Len(table)] = [id |-> id, fields |-> data]]

\* create(data): a new record under a fresh internal ID.
CreateRecord(table, id, data) == Append(table, [id |-> id, fields |-> data])

(***************************************************************************)
(* Upstream documents.                                                     *)
(***************************************************************************)
\* A person stub as a sponsorship carries it: an ID (when resolved) and a name.
Stub(id, name) ==
  [null |-> FALSE, id |-> id, name |-> name, given_name |-> Undefined, party |-> Undefined]

\* sponsorship.person of a sponsor the upstream could not resolve.
NullPerson ==
  [null |-> TRUE, id |-> Undefined, name |-> Undefined, given_name |-> Undefined,
   party |-> Undefined]

\* The full record GET /people serves for a known person ID.
FullPerson(id) ==
  [null |-> FALSE, id |-> id, name |-> "Hon. " \o id, given_name |-> "G. " \o id,
   party |-> "Party of " \o id]

\* GET /people?id=...: the full records of the requested IDs the upstream knows.
PeopleResponse(known, chunk) ==
  [results |-> [k \in 1..Len(SelectSeq(chunk, LAMBDA id : id \in known)) |->
                  FullPerson(SelectSeq(chunk, LAMBDA id : id \in known)[k])]]

chunkSize == 10

linkCap == 10

(***************************************************************************)
(* syncLegislators: the field set and the reconcile call of one person.    *)
(***************************************************************************)
\* A variant without the fallback to the stub.
FullPersonDataFromMapOnly(peopleMap, person) ==
  IF person.id \in DOMAIN peopleMap THEN peopleMap[person.id] ELSE NullPerson

\* peopleMap.get(person.id) || person
FullPersonData(peopleMap, person) ==
  IF person.id \in DOMAIN peopleMap THEN peopleMap[person.id] ELSE person

\* recordData of syncLegislators: the two fixed fields, then only what is present.
LegislatorRecordData(p) ==
  ("Full Name" :> OrEmpty(p.name)) @@ ("OpenStates ID" :> OrEmpty(p.id))
    @@ Optional(Truthy(p.given_name), "First Name", p.given_name)
    @@ Optional(Truthy(p.party), "Party", p.party)

\* A variant that reconciles a legislator by its name.
LegislatorCallByName(p) ==
  [table |-> "Legislators", field |-> "Full Name", value |-> p.name,
   data |-> LegislatorRecordData(p)]

\* findOrCreateRecord('Legislators', 'OpenStates ID', fullPersonData.id, recordData)
LegislatorCall(p) ==
  [table |-> "Legislators", field |-> "OpenStates ID", value |-> p.id,
   data |-> LegislatorRecordData(p)]

(***************************************************************************)
(* syncSubjects: the reconcile call of one raw label.                      *)
(***************************************************************************)
\* A variant that searches a subject by its raw label.
SubjectCallByRawLabel(subject) ==
  [table |-> "Subjects", field |-> "Subject Name", value |-> Show(subject),
   data |-> ("Subject Name" :> Show(formatSubjectName(subject)))
              @@ ("Category" :> categorizeSubject(subject))]

\* findOrCreateRecord('Subjects', 'Subject Name', formattedName, recordData)
SubjectCall(subject) ==
  [table |-> "Subjects", field |-> "Subject Name",
   value |-> Show(formatSubjectName(subject)),
   data |-> ("Subject Name" :> Show(formatSubjectName(subject)))
              @@ ("Category" :> categorizeSubject(subject))]

(***************************************************************************)
(* syncBills: the field set and the reconcile call of one bill.            *)
(***************************************************************************)
\* A variant that links every ID.
LinksUncapped(ids) == SelectSeq(ids, LAMBDA id : id # 0)

\* ids.filter(id => id != null).slice(0, 10)
Links(ids) == Slice(SelectSeq(ids, LAMBDA id : id # 0), 0, linkCap)

\* A variant that writes a bill without its link fields.
BillRecordDataUnlinked(bill, state, sponsorIds, subjectIds) ==
  ("Bill ID" :> OrEmpty(bill.identifier)) @@ ("Title" :> OrEmpty(bill.title))
    @@ ("OpenStates ID" :> OrEmpty(bill.id))
    @@ ("State" :> Show([k \in 1..Len(state) |-> ToUpperChar(state[k])]))

\* A variant that writes the link fields whatever the IDs returned.
BillRecordDataAlwaysLinked(bill, state, sponsorIds, subjectIds) ==
  ("Bill ID" :> OrEmpty(bill.identifier)) @@ ("Title" :> OrEmpty(bill.title))
    @@ ("OpenStates ID" :> OrEmpty(bill.id))
    @@ ("State" :> Show([k \in 1..Len(state) |-> ToUpperChar(state[k])]))
    @@ ("Sponsors" :> Links(sponsorIds)) @@ ("Subject Areas" :> Links(subjectIds))

\* recordData of syncBills.  The scalar fields not listed (Summary, Source URL,
\* Latest Action and the like) are copied from the bill the way Title is.
BillRecordData(bill, state, sponsorIds, subjectIds) ==
  ("Bill ID" :> OrEmpty(bill.identifier)) @@ ("Title" :> OrEmpty(bill.title))
    @@ ("OpenStates ID" :> OrEmpty(bill.id))
    @@ ("State" :> Show([k \in 1..Len(state) |-> ToUpperChar(state[k])]))
    @@ Optional(Len(sponsorIds) > 0 /\ Len(Links(sponsorIds)) > 0, "Sponsors", Links(sponsorIds))
    @@ Optional(Len(subjectIds) > 0 /\ Len(Links(subjectIds)) > 0, "Subject Areas",
                Links(subjectIds))

\* A variant that reconciles a bill by its identifier.
BillCallByIdentifier(bill, recordData) ==
  [table |-> "Bills", field |-> "Bill ID", value |-> bill.identifier, data |-> recordData]

\* findOrCreateRecord('Bills', 'OpenStates ID', bill.id, recordData)
BillCall(bill, recordData) ==
  [table |-> "Bills", field |-> "OpenStates ID", value |-> bill.id, data |-> recordData]

(***************************************************************************)
(* The manual endpoint (handler, lines 609-685).  A request is its method, *)
(* its Authorization header and its parsed body; a body is absent (a POST  *)
(* that carries none) or holds the properties state and states, each of    *)
(* which may be missing.  State codes are character sequences.             *)
(***************************************************************************)
\* process.env.WEBHOOK_SECRET
WEBHOOK_SECRET == "s3cret"

\* A property of the body that the request does not give.
Missing == [given |-> FALSE, array |-> FALSE, items |-> <<>>]

\* body.state: a string.
StateValue(code) == [given |-> TRUE, array |-> FALSE, items |-> <<code>>]

\* body.states: an array of strings.
StatesArray(codes) == [given |-> TRUE, array |-> TRUE, items |-> codes]

\* body.states: a string where an array is expected.
StatesString(code) == [given |-> TRUE, array |-> FALSE, items |-> <<code>>]

NoBody == [present |-> FALSE, state |-> Missing, states |-> Missing]

Body(state, states) == [present |-> TRUE, state |-> state, states |-> states]

\* The truth value of body.state (a string) and of body.states.
StateTruthy(v) == v.given /\ v.items # <<>> /\ v.items[1] # <<>>

StatesTruthy(v) == v.given /\ (v.array \/ (v.items # <<>> /\ v.items[1] # <<>>))

\* The handler part of an invocation's locals.  mode is "direct" for a plain
\* call of syncBills and "handler" for a request; status is 0 until the
\* response; responses counts the responses sent.
NoRequest ==
  [mode |-> "direct", method |-> "", authorization |-> Undefined, body |-> NoBody,
   statesToSync |-> <<>>, hi |-> 0, results |-> <<>>, totalSynced |-> 0,
   totalBills |-> 0, status |-> 0, response |-> NoFields, responses |-> 0]

\* res.status(status).json(body), and the handler returns.
Respond(l, status, body) ==
  [l EXCEPT !.pc = "responded", !.h.status = status, !.h.response = body,
            !.h.responses = @ + 1]

\* handler, lines 670-677: the 200 response with the totals.
RespondTotals(l) ==
  Respond(l, 200,
          [success |-> TRUE, totalStates |-> Len(l.h.statesToSync),
           totalSynced |-> l.h.totalSynced, totalBills |-> l.h.totalBills,
           results |-> l.h.results])

\* A variant in which the handler returns without a response once the loop is
\* over.
EnterJurisdictionSilent(l) ==
  IF l.h.hi > Len(l.h.statesToSync)
  THEN [l EXCEPT !.pc = "returned"]
  ELSE [l EXCEPT !.pc = "jurisdiction", !.state = l.h.statesToSync[l.h.hi]]

\* handler, lines 638-643: the loop head for jurisdiction hi.
EnterJurisdiction(l) ==
  IF l.h.hi > Len(l.h.statesToSync)
  THEN RespondTotals(l)
  ELSE [l EXCEPT !.pc = "jurisdiction", !.state = l.h.statesToSync[l.h.hi]]

\* A variant in which a failed jurisdiction ends the loop.
JurisdictionFailedStopping(l) ==
  RespondTotals(
    [l EXCEPT !.h.results = Append(@, [state |-> l.state, success |-> FALSE,
                                       error |-> "error"]),
              !.h.hi = @ + 1])

\* handler, lines 660-667: the catch of the loop body.
JurisdictionFailed(l) ==
  EnterJurisdiction(
    [l EXCEPT !.h.results = Append(@, [state |-> l.state, success |-> FALSE,
                                       error |-> "error"]),
              !.h.hi = @ + 1])

\* A variant that adds the bills fetched to both totals.
JurisdictionSyncedByTotal(l) ==
  EnterJurisdiction(
    [l EXCEPT !.h.results = Append(@, [state |-> l.state, success |-> TRUE,
                                       synced |-> l.syncedCount,
                                       total |-> Len(l.bills)]),
              !.h.totalSynced = @ + Len(l.bills),
              !.h.totalBills = @ + Len(l.bills),
              !.h.hi = @ + 1])

\* handler, lines 647-657: syncBills has returned its result.
JurisdictionSynced(l) ==
  EnterJurisdiction(
    [l EXCEPT !.h.results = Append(@, [state |-> l.state, success |-> TRUE,
                                       synced |-> l.syncedCount,
                                       total |-> Len(l.bills)]),
              !.h.totalSynced = @ + l.syncedCount,
              !.h.totalBills = @ + Len(l.bills),
              !.h.hi = @ + 1])

\* handler, lines 647-667: what follows syncBills returning or throwing.
HandlerCollect(l) ==
  IF l.result = "ok" THEN JurisdictionSynced(l) ELSE JurisdictionFailed(l)

\* handler, lines 621-632: the jurisdictions to sync, or none (400).
StatesToSync(body) ==
  IF StatesTruthy(body.states) /\ body.states.array THEN body.states.items
  ELSE IF StateTruthy(body.state) THEN body.state.items
  ELSE <<>>

HasTrigger(body) ==
  (StatesTruthy(body.states) /\ body.states.array) \/ StateTruthy(body.state)

\* A variant that accepts the secret with any scheme, or with none.
AuthorizedBySecret(authorization) ==
  authorization \in {"Bearer " \o WEBHOOK_SECRET, "bearer " \o WEBHOOK_SECRET,
                     WEBHOOK_SECRET}

\* handler, lines 616-617: the header is the bearer form of the secret, exactly.
Authorized(authorization) == authorization = "Bearer " \o Interpolate(WEBHOOK_SECRET)

\* handler, lines 609-638: from the request to the first remote call or the response.
EnterHandler(l, method, authorization, body) ==
  LET l1 == [l EXCEPT !.h = [NoRequest EXCEPT !.mode = "handler", !.method = method,
                                              !.authorization = authorization,
                                              !.body = body]]
  IN  IF method # "POST"
      THEN Respond(l1, 405, [error |-> "Method not allowed"])
      ELSE IF ~Authorized(authorization)
      THEN Respond(l1, 401, [error |-> "Unauthorized"])
      ELSE IF ~body.present
      THEN \* destructuring req.body throws; the outer catch answers (lines 678-684)
           Respond(l1, 500, [success |-> FALSE, error |-> "error"])
      ELSE IF ~HasTrigger(body)
      THEN Respond(l1, 400, [error |-> "State or states parameter is required"])
      ELSE EnterJurisdiction([l1 EXCEPT !.h.statesToSync = StatesToSync(body),
                                        !.h.hi = 1])

(***************************************************************************)
(* syncState (lines 281-323).  A jurisdiction is its id (a character       *)
(* sequence, empty when missing), its name and its legislature_name.       *)
(***************************************************************************)
IsLetter(c) == IsLower(c) \/ IsUpper(c)

StatePrefix == <<"/", "s", "t", "a", "t", "e", ":">>

\* /\/state:([a-z]{2})\//i matches the text at position p.
MatchesAt(s, p) ==
  /\ p + 9 <= Len(s)
  /\ ToLowerCase(SubSeq(s, p, p + 6)) = StatePrefix
  /\ IsLetter(s[p + 7]) /\ IsLetter(s[p + 8])
  /\ s[p + 9] = "/"

\* lines 289-295: the upper-cased capture of the first match, or null.
StateAbbr(id) ==
  LET ps == {p \in 1..Len(id) : MatchesAt(id, p)}
  IN  IF ps = {} THEN Undefined
      ELSE LET p == CHOOSE q \in ps : \A r \in ps : q <= r
           IN  ToUpperChar(id[p + 7]) \o ToUpperChar(id[p + 8])

\* lines 283-304 (Session Info, a serialised session, is left out).
StateRecordData(jurisdiction) ==
  ("State Name" :> OrEmpty(jurisdiction.name))
    @@ Optional(Truthy(StateAbbr(jurisdiction.id)), "Abbreviation",
                StateAbbr(jurisdiction.id))
    @@ Optional(Truthy(jurisdiction.legislature_name), "Legislature Type",
                jurisdiction.legislature_name)

\* lines 311-316: abbr || jurisdiction.name is the key searched.
StateCall(jurisdiction) ==
  [table |-> "States", field |-> "Abbreviation",
   value |-> IF Truthy(StateAbbr(jurisdiction.id)) THEN StateAbbr(jurisdiction.id)
             ELSE jurisdiction.name,
   data |-> StateRecordData(jurisdiction)]

\* A variant that requests the bills without reconciling the jurisdiction.
EnterStateSkipped(l, jurisdiction) == [l EXCEPT !.pc = "fetchBills"]

\* handler, line 644: syncState(jurisdictionData) up to its findOrCreateRecord.
EnterState(l, jurisdiction) ==
  [l EXCEPT !.pc = "query", !.site = "state", !.found = 0,
            !.call = StateCall(jurisdiction)]

\* handler, line 647, and syncBills, lines 436-449: up to GET /bills.
EnterSyncBills(l) == [l EXCEPT !.pc = "fetchBills"]

(***************************************************************************)
(* The scheduled endpoint (scheduled-sync.js).  One run is modelled: its   *)
(* control point, the start index i of the current batch, the invocations  *)
(* of the manual endpoint in flight, the batches posted so far, and per    *)
(* jurisdiction how often it was pushed to results.success and to          *)
(* results.failed, what its invocation answered, and the jurisdictions     *)
(* whose 2xx answer reported the sync as failed.  (The order of the pushes *)
(* within the two arrays is not kept.)                                     *)
(***************************************************************************)
\* process.env.CRON_SECRET
CRON_SECRET == "cr0n"

\* scheduled-sync.js, lines 11-18.
states ==
  << "al", "ak", "az", "ar", "ca", "co", "ct", "de", "fl", "ga",
     "hi", "id", "il", "in", "ia", "ks", "ky", "la", "me", "md",
     "ma", "mi", "mn", "ms", "mo", "mt", "ne", "nv", "nh", "nj",
     "nm", "ny", "nc", "nd", "oh", "ok", "or", "pa", "ri", "sc",
     "sd", "tn", "tx", "ut", "vt", "va", "wa", "wv", "wi", "wy",
     "dc", "pr" >>

batchSize == 5

IdleSched ==
  [pc |-> "idle", authorization |-> Undefined, i |-> 0, pending |-> {},
   posts |-> <<>>, success |-> [s \in Range(states) |-> 0],
   failed |-> [s \in Range(states) |-> 0],
   answers |-> [s \in Range(states) |-> "none"],
   failedInside |-> {}, status |-> 0, response |-> NoFields]

(***************************************************************************)
(* JavaScript values, where a helper is handed more than character         *)
(* sequences: the kind of the value and, for a string, its characters.     *)
(***************************************************************************)
JsNull == [kind |-> "null", text |-> <<>>]

JsUndefined == [kind |-> "undefined", text |-> <<>>]

Str(text) == [kind |-> "string", text |-> text]

\* A number, by its decimal digits.
Num(digits) == [kind |-> "number", text |-> digits]

\* A function, by its source text.
Fn(text) == [kind |-> "function", text |-> text]

\* !value
Falsy(v) ==
  \/ v.kind \in {"null", "undefined"}
  \/ v.kind = "string" /\ v.text = <<>>
  \/ v.kind = "number" /\ v.text = <<"0">>

\* What a helper call comes to: a value returned, or an exception.
Returns(v) == [outcome |-> "returned", value |-> v]

Throws == [outcome |-> "threw", value |-> JsUndefined]

Digits == <<"0","1","2","3","4","5","6","7","8","9">>

IsDigit(c) == \E k \in 1..Len(Digits) : Digits[k] = c

DigitValue(c) == (CHOOSE k \in 1..Len(Digits) : Digits[k] = c) - 1

\* The number a run of digits spells.
RECURSIVE NumberOf(_)
NumberOf(ds) ==
  IF ds = <<>> THEN 0 ELSE NumberOf(SubSeq(ds, 1, Len(ds) - 1)) * 10 + DigitValue(ds[Len(ds)])

\* String(n).padStart(width, '0') for a natural number n.
RECURSIVE Padded(_, _)
Padded(n, width) ==
  IF width <= 1 /\ n < 10 THEN <<Digits[n + 1]>>
  ELSE Padded(n \div 10, width - 1) \o <<Digits[(n % 10) + 1]>>

(***************************************************************************)
(* normalizeDate                                                           *)
(***************************************************************************)
\* A variant that takes the pattern to cover the whole string.
WholeDateMatch(s) ==
  /\ Len(s) = 10
  /\ \A k \in {1, 2, 3, 4, 6, 7, 9, 10} : IsDigit(s[k])
  /\ s[5] = "-" /\ s[8] = "-"

\* line 571: dateString.match(/^(\d{4}-\d{2}-\d{2})/) finds a match.
DatePrefixMatch(s) ==
  /\ Len(s) >= 10
  /\ \A k \in {1, 2, 3, 4, 6, 7, 9, 10} : IsDigit(s[k])
  /\ s[5] = "-" /\ s[8] = "-"

IsLeap(y) == (y % 4 = 0 /\ y % 100 # 0) \/ y % 400 = 0

DaysIn(m, y) ==
  IF m = 2 THEN (IF IsLeap(y) THEN 29 ELSE 28)
  ELSE IF m \in {4, 6, 9, 11} THEN 30 ELSE 31

AllDigits(s) == s # <<>> /\ \A k \in 1..Len(s) : IsDigit(s[k])

NotADate == [valid |-> FALSE, y |-> 0, m |-> 0, d |-> 0]

\* line 577: new Date(dateString), for the strings without the prefix that the
\* model feeds in: a slash date M/D/YYYY whose day exists is read as midnight
\* of that day in the local zone, and text that spells no date is invalid.
DateParse(s) ==
  LET parts == Split(s, "/")
  IN  IF /\ Len(parts) = 3
         /\ \A k \in 1..3 : AllDigits(parts[k])
         /\ Len(parts[3]) = 4
         /\ NumberOf(parts[1]) \in 1..12
         /\ NumberOf(parts[2]) \in 1..DaysIn(NumberOf(parts[1]), NumberOf(parts[3]))
      THEN [valid |-> TRUE, y |-> NumberOf(parts[3]), m |-> NumberOf(parts[1]),
            d |-> NumberOf(parts[2])]
      ELSE NotADate

\* The day before a calendar day.
DayBefore(t) ==
  IF t.d > 1 THEN [t EXCEPT !.d = @ - 1]
  ELSE IF t.m > 1 THEN [t EXCEPT !.m = @ - 1, !.d = DaysIn(t.m - 1, t.y)]
  ELSE [t EXCEPT !.y = @ - 1, !.m = 12, !.d = 31]

\* Where the local zone lies relative to UTC.
Zones == {"behind", "utc", "ahead"}

\* line 580: date.toISOString().split('T')[0] for local midnight of day t: the
\* UTC calendar day, which is the day before in a zone ahead of UTC.
IsoDay(t, zone) ==
  LET u == IF zone = "ahead" THEN DayBefore(t) ELSE t
  IN  Padded(u.y, 4) \o <<"-">> \o Padded(u.m, 2) \o <<"-">> \o Padded(u.d, 2)

\* normalizeDate (lines 563-589).  A value that is not a string has no match
\* method: the call at line 571 throws and the catch returns the input.
normalizeDate(dateString, zone) ==
  IF Falsy(dateString) THEN Returns(JsNull)
  ELSE IF dateString.kind # "string" THEN Returns(dateString)
  ELSE IF DatePrefixMatch(dateString.text) THEN Returns(Str(SubSeq(dateString.text, 1, 10)))
  ELSE IF DateParse(dateString.text).valid
       THEN Returns(Str(IsoDay(DateParse(dateString.text), zone)))
  ELSE Returns(dateString)

(***************************************************************************)
(* determineStatus                                                         *)
(***************************************************************************)
signed == <<"s","i","g","n","e","d">>

enacted == <<"e","n","a","c","t","e","d">>

vetoed == <<"v","e","t","o","e","d">>

failed == <<"f","a","i","l","e","d">>

died == <<"d","i","e","d">>

passed == <<"p","a","s","s","e","d">>

senate == <<"s","e","n","a","t","e">>

house == <<"h","o","u","s","e">>

committee == <<"c","o","m","m","i","t","t","e","e">>

\* A variant that tries the veto rule first.
determineStatusVetoFirst(bill) ==
  IF Falsy(bill.latest_action_description) THEN "Introduced"
  ELSE LET action == ToLowerCase(bill.latest_action_description.text)
       IN  IF Includes(action, vetoed) THEN "Vetoed"
           ELSE IF Includes(action, signed) \/ Includes(action, enacted) THEN "Enacted"
           ELSE IF Includes(action, failed) \/ Includes(action, died) THEN "Failed"
           ELSE IF Includes(action, passed) /\ Includes(action, senate) THEN "Passed Senate"
           ELSE IF Includes(action, passed) /\ Includes(action, house) THEN "Passed House"
           ELSE IF Includes(action, committee) THEN "In Committee"
           ELSE "Introduced"

\* determineStatus (lines 592-606).
determineStatus(bill) ==
  IF Falsy(bill.latest_action_description) THEN "Introduced"
  ELSE LET action == ToLowerCase(bill.latest_action_description.text)
       IN  IF Includes(action, signed) \/ Includes(action, enacted) THEN "Enacted"
           ELSE IF Includes(action, vetoed) THEN "Vetoed"
           ELSE IF Includes(action, failed) \/ Includes(action, died) THEN "Failed"
           ELSE IF Includes(action, passed) /\ Includes(action, senate) THEN "Passed Senate"
           ELSE IF Includes(action, passed) /\ Includes(action, house) THEN "Passed House"
           ELSE IF Includes(action, committee) THEN "In Committee"
           ELSE "Introduced"

(***************************************************************************)
(* The call of a text helper under evaluation: the helper, its argument,   *)
(* what the call came to, and how many times the helper has been applied.  *)
(***************************************************************************)
IdleCalc ==
  [fn |-> "none", arg |-> JsUndefined, out |-> JsUndefined, outcome |-> "none",
   pass |-> 0, given |-> {}, zone |-> "utc"]

(***************************************************************************)
(* One invocation of syncBills.  pc names the remote call the invocation   *)
(* is waiting on:                                                          *)
(*   fetchBills  GET /bills              chunk   GET /people for one chunk *)
(*   query       the select of findOrCreateRecord                          *)
(*   update      its update (a record matched)                             *)
(*   create      its create (none matched)                                 *)
(* site names the caller of findOrCreateRecord the result returns to.      *)
(* The fields requests, okPeople, okSubjects, last, storeFailed, created,  *)
(* billsAfter, log and fetches record what happened; no step reads them.   *)
(* h is the request the invocation serves, when it serves one.             *)
(***************************************************************************)
NoCall == [table |-> "", field |-> "", value |-> "", data |-> NoFields]

NoLast ==
  [table |-> "", field |-> "", value |-> "", data |-> NoFields, site |-> "none",
   pre |-> <<>>, post |-> <<>>, found |-> 0, ret |-> 0, ok |-> FALSE]

IdleLocal ==
  [pc |-> "idle", state |-> <<>>, bills |-> <<>>, bi |-> 0, syncedCount |-> 0,
   result |-> "none",
   people |-> <<>>, personIds |-> <<>>, ci |-> 0, peopleMap |-> NoFields,
   pi |-> 0, legislatorIds |-> <<>>, sponsorIds |-> <<>>,
   si |-> 0, subjectIds |-> <<>>,
   call |-> NoCall, site |-> "none", found |-> 0, pre |-> <<>>,
   requests |-> <<>>, okPeople |-> <<>>, okSubjects |-> <<>>, last |-> NoLast,
   storeFailed |-> FALSE, created |-> [t \in Tables |-> 0], billsAfter |-> 0,
   log |-> <<>>, fetches |-> <<>>, h |-> NoRequest]

\* syncBills, lines 472-546: build the bill's field set and call findOrCreateRecord.
EnterBillRecord(l) ==
  LET bill == l.bills[l.bi]
  IN  [l EXCEPT !.pc = "query", !.site = "bill", !.found = 0,
                !.call = BillCall(bill, BillRecordData(bill, l.state, l.sponsorIds,
                                                       l.subjectIds))]

\* A variant in which a failed subject ends the loop over the subjects.
EnterSubjectStopping(l) ==
  LET subjects == l.bills[l.bi].subject
  IN  IF l.si > Len(subjects) \/ (l.si > 1 /\ ~l.last.ok)
      THEN EnterBillRecord(l)
      ELSE [l EXCEPT !.pc = "query", !.site = "subj", !.found = 0,
                     !.call = SubjectCall(subjects[l.si])]

\* syncSubjects, lines 389-411: the loop head for subject si.
EnterSubject(l) ==
  LET subjects == l.bills[l.bi].subject
  IN  IF l.si > Len(subjects)
      THEN EnterBillRecord(l)
      ELSE [l EXCEPT !.pc = "query", !.site = "subj", !.found = 0,
                     !.call = SubjectCall(subjects[l.si])]

\* A variant that writes the bill without reconciling its subjects first.
EnterSubjectsSkipped(l) ==
  EnterBillRecord([l EXCEPT !.subjectIds = <<>>, !.okSubjects = <<>>, !.si = 1])

\* syncBills, lines 467-470: subjectIds = [], then syncSubjects when there are subjects.
EnterSubjects(l) ==
  LET l1 == [l EXCEPT !.subjectIds = <<>>, !.okSubjects = <<>>, !.si = 1]
  IN  IF Len(l.bills[l.bi].subject) > 0 THEN EnterSubject(l1) ELSE EnterBillRecord(l1)

\* syncLegislators, lines 126-218 and 246: the loop head for person pi.
EnterPerson(l) ==
  IF l.pi > Len(l.people)
  THEN EnterSubjects([l EXCEPT !.sponsorIds = l.legislatorIds])
  ELSE [l EXCEPT !.pc = "query", !.site = "leg", !.found = 0,
                 !.call = LegislatorCall(FullPersonData(l.peopleMap, l.people[l.pi]))]

\* A variant that reconciles the stubs when none of them carries an ID.
EnterLegislatorsWithoutIds(l, people) ==
  LET ids       == [k \in 1..Len(people) |-> people[k].id]
      personIds == Unique(SelectSeq(ids, Truthy))
      l1        == [l EXCEPT !.people = people, !.personIds = personIds, !.ci = 0,
                             !.peopleMap = NoFields, !.requests = <<>>, !.pi = 1,
                             !.legislatorIds = <<>>, !.okPeople = <<>>]
  IN  IF Len(people) = 0 THEN EnterSubjects([l1 EXCEPT !.sponsorIds = <<>>])
      ELSE IF Len(personIds) = 0 THEN EnterPerson(l1)
      ELSE [l1 EXCEPT !.pc = "chunk"]

\* syncLegislators, lines 79-104: up to the first GET /people.
EnterLegislators(l, people) ==
  LET ids       == [k \in 1..Len(people) |-> people[k].id]
      personIds == Unique(SelectSeq(ids, Truthy))
      l1        == [l EXCEPT !.people = people, !.personIds = personIds, !.ci = 0,
                             !.peopleMap = NoFields, !.requests = <<>>, !.pi = 1,
                             !.legislatorIds = <<>>, !.okPeople = <<>>]
  IN  IF Len(people) = 0 \/ Len(personIds) = 0
      THEN EnterSubjects([l1 EXCEPT !.sponsorIds = <<>>])
      ELSE [l1 EXCEPT !.pc = "chunk"]

\* A variant in which a failed bill ends the loop over the bills.
EnterBillStopping(l) ==
  IF l.bi > Len(l.bills) \/ (l.bi > 1 /\ ~l.last.ok)
  THEN [l EXCEPT !.pc = "done", !.result = "ok"]
  ELSE LET sponsorships == l.bills[l.bi].sponsorships
           persons      == [k \in 1..Len(sponsorships) |-> sponsorships[k].person]
           sponsors     == SelectSeq(persons, LAMBDA p : ~p.null)
           l1           == [l EXCEPT !.sponsorIds = <<>>, !.people = <<>>,
                                     !.subjectIds = <<>>, !.okSubjects = <<>>,
                                     !.personIds = <<>>, !.requests = <<>>,
                                     !.legislatorIds = <<>>, !.okPeople = <<>>]
       IN  IF Len(sponsorships) > 0 THEN EnterLegislators(l1, sponsors)
           ELSE EnterSubjects(l1)

\* syncBills, lines 456-465 and 555: the loop head for bill bi.
EnterBill(l) ==
  IF l.bi > Len(l.bills)
  THEN [l EXCEPT !.pc = "done", !.result = "ok"]
  ELSE LET sponsorships == l.bills[l.bi].sponsorships
           persons      == [k \in 1..Len(sponsorships) |-> sponsorships[k].person]
           sponsors     == SelectSeq(persons, LAMBDA p : ~p.null)
           l1           == [l EXCEPT !.sponsorIds = <<>>, !.people = <<>>,
                                     !.subjectIds = <<>>, !.okSubjects = <<>>,
                                     !.personIds = <<>>, !.requests = <<>>,
                                     !.legislatorIds = <<>>, !.okPeople = <<>>]
       IN  IF Len(sponsorships) > 0 THEN EnterLegislators(l1, sponsors)
           ELSE EnterSubjects(l1)

\* A variant in which syncState rethrows what findOrCreateRecord threw.
AfterSyncStateThrowing(l, ok) ==
  IF ok THEN EnterSyncBills(l) ELSE JurisdictionFailed(l)

\* syncState, lines 318-322, and handler, lines 644-647: syncState returns the
\* ID, or null after its catch; either way the handler goes on to syncBills.
AfterSyncState(l, ok) == EnterSyncBills(l)

\* What follows findOrCreateRecord returning id (ok) or throwing (~ok): the push
\* and the catch of the caller, then its next loop head.
AfterCall(l, ok, id, post) ==
  LET l1 == [l EXCEPT !.last = [table |-> l.call.table, field |-> l.call.field,
                                value |-> l.call.value, data |-> l.call.data,
                                site |-> l.site, pre |-> l.pre, post |-> post,
                                found |-> l.found, ret |-> id, ok |-> ok],
                      !.storeFailed = @ \/ ~ok,
                      !.created = IF ok /\ l.pc = "create"
                                  THEN [@ EXCEPT ![l.call.table] = @ + 1] ELSE @,
                      !.log = Append(@, [site |-> l.site, hi |-> l.h.hi, bi |-> l.bi,
                                         pi |-> l.pi, si |-> l.si, ok |-> ok,
                                         ret |-> id]),
                      !.call = NoCall, !.pre = <<>>, !.found = 0]
  IN  CASE l.site = "leg" ->
             EnterPerson([l1 EXCEPT !.pi = @ + 1,
                            !.legislatorIds = IF ok THEN Append(@, id) ELSE @,
                            !.okPeople = IF ok THEN Append(@, l.pi) ELSE @])
        [] l.site = "subj" ->
             EnterSubject([l1 EXCEPT !.si = @ + 1,
                            !.subjectIds = IF ok THEN Append(@, id) ELSE @,
                            !.okSubjects = IF ok THEN Append(@, l.si) ELSE @])
        [] l.site = "bill" ->
             EnterBill([l1 EXCEPT !.bi = @ + 1,
                          !.syncedCount = IF ok THEN @ + 1 ELSE @])
        [] l.site = "state" ->
             AfterSyncState(l1, ok)

\* The locals when a step ends: an invocation that has returned notes the size
\* of the Bills table it leaves, and the handler that called it goes on.
Settle(l, st) ==
  IF l.pc = "done"
  THEN LET l1 == [l EXCEPT !.billsAfter = Len(st["Bills"])]
       IN  IF l.h.mode = "handler" THEN HandlerCollect(l1) ELSE l1
  ELSE l

(***************************************************************************)
(* Bounds of the model.                                                    *)
(***************************************************************************)
MaxInvocations == 2

MaxFailures == 1

MaxSponsors == 25

MaxSubjects == 11

Invocations == 1..MaxInvocations

\* The state codes a caller passes; syncBills lower-cases them for the upstream.
RequestedStates == { <<"c","a">>, <<"N","C">> }

Jurisdiction(state) == Show(ToLowerCase(state))

Running(i) == inv[i].pc \notin {"idle", "done"}

(***************************************************************************)
(* The steps.                                                              *)
(***************************************************************************)
\* A caller invokes syncBills(state).
Start(i) ==
  /\ i = runs + 1
  /\ runsLeft > 0
  /\ inv[i].pc = "idle"
  /\ \E state \in RequestedStates :
       inv' = [inv EXCEPT ![i] = [IdleLocal EXCEPT !.pc = "fetchBills", !.state = state]]
  /\ runs' = runs + 1
  /\ runsLeft' = runsLeft - 1
  /\ UNCHANGED <<calc, sched, upstream, store, nextId, failuresLeft>>

\* The same, when no other invocation is in progress.
StartAlone(i) ==
  /\ \A j \in Invocations : ~Running(j)
  /\ Start(i)

\* GET /bills answers: the loop over the bills begins.
FetchBillsOk(i) ==
  /\ inv[i].pc = "fetchBills"
  /\ LET l == inv[i]
     IN  inv' = [inv EXCEPT ![i] =
                   Settle(EnterBill([l EXCEPT !.bills = upstream.bills[Jurisdiction(l.state)],
                                              !.bi = 1, !.syncedCount = 0,
                                              !.fetches = Append(@, [kind |-> "bills",
                                                                     hi |-> l.h.hi,
                                                                     ok |-> TRUE])]),
                          store)]
  /\ UNCHANGED <<calc, sched, upstream, store, nextId, runs, runsLeft, failuresLeft>>

\* GET /bills fails: fetchFromPluralAPI throws and syncBills rethrows.
FetchBillsFail(i) ==
  /\ inv[i].pc = "fetchBills"
  /\ failuresLeft > 0
  /\ failuresLeft' = failuresLeft - 1
  /\ LET l == inv[i]
     IN  inv' = [inv EXCEPT ![i] =
                   Settle([l EXCEPT !.pc = "done", !.result = "threw",
                                    !.fetches = Append(@, [kind |-> "bills", hi |-> l.h.hi,
                                                           ok |-> FALSE])], store)]
  /\ UNCHANGED <<calc, sched, upstream, store, nextId, runs, runsLeft>>

\* The chunk of person IDs the pending GET /people carries.
Chunk(l) == Slice(l.personIds, l.ci, l.ci + chunkSize)

\* After a chunk's request settles: the next chunk, or the loop over the people.
AfterChunk(l) ==
  IF l.ci < Len(l.personIds) THEN l ELSE EnterPerson(l)

\* GET /people for one chunk answers: its results enter peopleMap.
FetchPeopleOk(i) ==
  /\ inv[i].pc = "chunk"
  /\ LET l       == inv[i]
         results == PeopleResponse(upstream.known, Chunk(l)).results
         fetched == [id \in {results[k].id : k \in 1..Len(results)} |->
                       results[CHOOSE k \in 1..Len(results) : results[k].id = id]]
     IN  inv' = [inv EXCEPT ![i] =
                   AfterChunk([l EXCEPT !.peopleMap = fetched @@ @,
                                        !.requests = Append(@, [ids |-> Chunk(l), ok |-> TRUE]),
                                        !.ci = @ + chunkSize])]
  /\ UNCHANGED <<calc, sched, upstream, store, nextId, runs, runsLeft, failuresLeft>>

\* A variant in which a failed chunk ends the chunk loop.
FetchPeopleFailAborts(i) ==
  /\ inv[i].pc = "chunk"
  /\ failuresLeft > 0
  /\ failuresLeft' = failuresLeft - 1
  /\ LET l == inv[i]
     IN  inv' = [inv EXCEPT ![i] =
                   EnterPerson([l EXCEPT !.requests = Append(@, [ids |-> Chunk(l), ok |-> FALSE]),
                                         !.ci = @ + chunkSize])]
  /\ UNCHANGED <<calc, sched, upstream, store, nextId, runs, runsLeft>>

\* A variant in which a failed chunk is requested again.
FetchPeopleFailRetried(i) ==
  /\ inv[i].pc = "chunk"
  /\ failuresLeft > 0
  /\ failuresLeft' = failuresLeft - 1
  /\ LET l == inv[i]
     IN  inv' = [inv EXCEPT ![i] =
                   [l EXCEPT !.requests = Append(@, [ids |-> Chunk(l), ok |-> FALSE])]]
  /\ UNCHANGED <<calc, sched, upstream, store, nextId, runs, runsLeft>>

\* GET /people for one chunk fails: logged, and the loop goes on.
FetchPeopleFail(i) ==
  /\ inv[i].pc = "chunk"
  /\ failuresLeft > 0
  /\ failuresLeft' = failuresLeft - 1
  /\ LET l == inv[i]
     IN  inv' = [inv EXCEPT ![i] =
                   AfterChunk([l EXCEPT !.requests = Append(@, [ids |-> Chunk(l), ok |-> FALSE]),
                                        !.ci = @ + chunkSize])]
  /\ UNCHANGED <<calc, sched, upstream, store, nextId, runs, runsLeft>>

\* findOrCreateRecord: the select answers with one matching record, or none.
QueryOk(i) ==
  /\ inv[i].pc = "query"
  /\ LET l     == inv[i]
         table == store[l.call.table]
         hits  == Matching(table, l.call.field, l.call.value)
     IN  \/ /\ hits = {}
            /\ inv' = [inv EXCEPT ![i] = [l EXCEPT !.pc = "create", !.found = 0,
                                                   !.pre = table]]
         \/ \E k \in hits :
              inv' = [inv EXCEPT ![i] = [l EXCEPT !.pc = "update", !.found = table[k].id,
                                                  !.pre = table]]
  /\ UNCHANGED <<calc, sched, upstream, store, nextId, runs, runsLeft, failuresLeft>>

\* findOrCreateRecord: the select fails; the error is rethrown to the caller.
QueryFail(i) ==
  /\ inv[i].pc = "query"
  /\ failuresLeft > 0
  /\ failuresLeft' = failuresLeft - 1
  /\ LET l == inv[i]
     IN  inv' = [inv EXCEPT ![i] =
                   Settle(AfterCall([l EXCEPT !.pre = store[l.call.table]], FALSE, 0,
                                    store[l.call.table]), store)]
  /\ UNCHANGED <<calc, sched, upstream, store, nextId, runs, runsLeft>>

\* findOrCreateRecord: the update of the matched record succeeds; its ID is returned.
UpdateOk(i) ==
  /\ inv[i].pc = "update"
  /\ LET l == inv[i]
     IN  /\ store' = [store EXCEPT ![l.call.table] = UpdateRecord(@, l.found, l.call.data)]
         /\ inv' = [inv EXCEPT ![i] =
                      Settle(AfterCall(l, TRUE, l.found, store'[l.call.table]), store')]
  /\ UNCHANGED <<calc, sched, upstream, nextId, runs, runsLeft, failuresLeft>>

\* findOrCreateRecord: the update fails.
UpdateFail(i) ==
  /\ inv[i].pc = "update"
  /\ failuresLeft > 0
  /\ failuresLeft' = failuresLeft - 1
  /\ LET l == inv[i]
     IN  inv' = [inv EXCEPT ![i] =
                   Settle(AfterCall(l, FALSE, 0, store[l.call.table]), store)]
  /\ UNCHANGED <<calc, sched, upstream, store, nextId, runs, runsLeft>>

\* findOrCreateRecord: the create succeeds; the new record's ID is returned.
CreateOk(i) ==
  /\ inv[i].pc = "create"
  /\ LET l == inv[i]
     IN  /\ store' = [store EXCEPT ![l.call.table] = CreateRecord(@, nextId, l.call.data)]
         /\ inv' = [inv EXCEPT ![i] =
                      Settle(AfterCall(l, TRUE, nextId, store'[l.call.table]), store')]
  /\ nextId' = nextId + 1
  /\ UNCHANGED <<calc, sched, upstream, runs, runsLeft, failuresLeft>>

\* findOrCreateRecord: the create fails.
CreateFail(i) ==
  /\ inv[i].pc = "create"
  /\ failuresLeft > 0
  /\ failuresLeft' = failuresLeft - 1
  /\ LET l == inv[i]
     IN  inv' = [inv EXCEPT ![i] =
                   Settle(AfterCall(l, FALSE, 0, store[l.call.table]), store)]
  /\ UNCHANGED <<calc, sched, upstream, store, nextId, runs, runsLeft>>

\* A remote call of invocation i answers.
StepOk(i) ==
  FetchBillsOk(i) \/ FetchPeopleOk(i) \/ QueryOk(i) \/ UpdateOk(i) \/ CreateOk(i)

\* A remote call of invocation i fails.
StepFail(i) ==
  FetchBillsFail(i) \/ FetchPeopleFail(i) \/ QueryFail(i) \/ UpdateFail(i) \/ CreateFail(i)

Step(i) == StepOk(i) \/ StepFail(i)

(***************************************************************************)
(* Upstream data.                                                          *)
(***************************************************************************)
PUBLIC_SAFETY == <<"P","U","B","L","I","C","_","S","A","F","E","T","Y">>

PublicSafety == <<"P","u","b","l","i","c","S","a","f","e","t","y">>

publicsafety == <<"p","u","b","l","i","c","s","a","f","e","t","y">>

taxPolicy == <<"t","a","x","P","o","l","i","c","y">>

Sponsorship(person) == [person |-> person]

Lee1 == Stub("p1", "Lee")

Lee1Renamed == Stub("p1", "J. Lee")

Lee2 == Stub("p2", "Lee")

Anonymous == Stub(Undefined, "Ray")

\* Two bills that share the identifier HB 1, a bill without an ID, and a bill
\* without sponsors or subjects.
BillA ==
  [id |-> "b1", identifier |-> "HB 1", title |-> "Title A",
   sponsorships |-> <<Sponsorship(Lee1)>>, subject |-> <<PUBLIC_SAFETY, publicsafety>>]

BillB ==
  [id |-> "b2", identifier |-> "HB 1", title |-> "Title B",
   sponsorships |-> <<Sponsorship(Lee2), Sponsorship(Lee1), Sponsorship(Lee1Renamed)>>,
   subject |-> <<PublicSafety>>]

BillC ==
  [id |-> Undefined, identifier |-> "SB 2", title |-> "Title C",
   sponsorships |-> <<Sponsorship(NullPerson), Sponsorship(Anonymous), Sponsorship(Lee1)>>,
   subject |-> <<taxPolicy>>]

BillD ==
  [id |-> "b4", identifier |-> "SB 4", title |-> "Title D",
   sponsorships |-> <<Sponsorship(NullPerson)>>, subject |-> <<>>]

SmallLists == { <<>>, <<BillA>>, <<BillB>>, <<BillC>>, <<BillD>>, <<BillA, BillB>>,
                <<BillC, BillA>> }

SmallUpstreams ==
  { [bills |-> [j \in {"ca", "nc"} |-> IF j = "ca" THEN ca ELSE nc], known |-> {"p1"}] :
      ca \in SmallLists, nc \in { <<>>, <<BillB>> } }

EmptyStore == [t \in Tables |-> <<>>]

InitWith(ups, maxRuns, maxFail) ==
  /\ upstream \in ups
  /\ store = EmptyStore
  /\ nextId = 1
  /\ inv = [i \in Invocations |-> IdleLocal]
  /\ runs = 0
  /\ runsLeft = maxRuns
  /\ failuresLeft = maxFail
  /\ sched = IdleSched
  /\ calc = IdleCalc

(***************************************************************************)
(* Spec: invocations one after another, never overlapping.                 *)
(***************************************************************************)
Init == InitWith(SmallUpstreams, MaxInvocations, MaxFailures)

Next == \E i \in Invocations : StartAlone(i) \/ Step(i)

Spec == Init /\ [][Next]_vars

(***************************************************************************)
(* SpecRace: invocations that may overlap, as the scheduled sync's fan-out *)
(* starts them, each over one bill; the two bills differ in their IDs and  *)
(* raw subject labels and share the canonical subject name.  Every remote  *)
(* call answers.                                                           *)
(***************************************************************************)
RaceBillA ==
  [id |-> "b1", identifier |-> "HB 1", title |-> "Title A",
   sponsorships |-> <<>>, subject |-> <<PUBLIC_SAFETY>>]

RaceBillB ==
  [id |-> "b2", identifier |-> "HB 1", title |-> "Title B",
   sponsorships |-> <<Sponsorship(Lee1Renamed)>>, subject |-> <<publicsafety>>]

RaceUpstreams ==
  { [bills |-> [j \in {"ca", "nc"} |-> IF j = "ca" THEN <<RaceBillA>> ELSE <<RaceBillB>>],
     known |-> {"p1"}] }

InitRace == InitWith(RaceUpstreams, MaxInvocations, 0)

NextRace == \E i \in Invocations : Start(i) \/ StepOk(i)

SpecRace == InitRace /\ [][NextRace]_vars

(***************************************************************************)
(* SpecBig: one invocation over a bill with a long sponsor list or a long  *)
(* subject list, followed by a second bill under the same ID; or over ten  *)
(* bills with one sponsor and two subjects each.                           *)
(***************************************************************************)
PersonId(n) == "p" \o ToString(n)

\* n distinct people; with repeat, the first of them is listed twice; with
\* anonymous, a stub without an ID stands between the first and the rest.
SponsorList(n, repeat, anonymous) ==
  LET distinct == [k \in 1..n |-> Sponsorship(Stub(PersonId(k), "Name " \o ToString(k)))]
      head     == IF n = 0 THEN <<>> ELSE <<distinct[1]>>
  IN  (IF repeat THEN head ELSE <<>>)
        \o (IF anonymous THEN <<Sponsorship(Anonymous)>> ELSE <<>>)
        \o distinct

\* m labels with m distinct canonical names: a, b, c, ...
SubjectList(m) == [k \in 1..m |-> <<LowerChars[k]>>]

BigBill(sponsorships, subject) ==
  [id |-> "b1", identifier |-> "HB 1", title |-> "Title A",
   sponsorships |-> sponsorships, subject |-> subject]

TailBill ==
  [id |-> "b1", identifier |-> "HB 1", title |-> "Title A, amended",
   sponsorships |-> <<>>, subject |-> <<>>]

\* 10 bills, each with 1 sponsor and 2 subjects.
TenBills ==
  [k \in 1..10 |->
     [id |-> "b" \o ToString(k), identifier |-> "HB " \o ToString(k),
      title |-> "Title " \o ToString(k),
      sponsorships |-> <<Sponsorship(Stub(PersonId(k), "Name " \o ToString(k)))>>,
      subject |-> SubjectList(2)]]

BigLists ==
  { <<BigBill(SponsorList(n, irregular, irregular), <<>>), TailBill>> :
      n \in 0..MaxSponsors, irregular \in BOOLEAN }
  \cup { <<BigBill(<<>>, SubjectList(m)), TailBill>> : m \in 0..MaxSubjects }
  \cup { TenBills }

\* The upstream knows the full record of every second person.
BigUpstreams ==
  { [bills |-> [j \in {"ca", "nc"} |-> list],
     known |-> {PersonId(2 * k) : k \in 1..MaxSponsors}] : list \in BigLists }

InitBig == InitWith(BigUpstreams, 1, MaxFailures)

SpecBig == InitBig /\ [][Next]_vars

(***************************************************************************)
(* Notions the claims are stated in.                                       *)
(***************************************************************************)
\* The field a table is reconciled by.
KeyField(t) ==
  CASE t = "Subjects" -> "Subject Name"
    [] t = "States"   -> "Abbreviation"
    [] OTHER          -> "OpenStates ID"

\* The records of a table, as a set.
Records(t) == {store[t][k] : k \in 1..Len(store[t])}

\* The internal IDs of the records of a table value.
IdsOf(table) == {table[k].id : k \in 1..Len(table)}

\* The record of a table value under an internal ID.
RecordOf(table, id) == table[CHOOSE k \in 1..Len(table) : table[k].id = id]

\* The first n elements of a sequence.
FirstN(s, n) == [k \in 1..(IF Len(s) < n THEN Len(s) ELSE n) |-> s[k]]

\* The least number of groups of size that hold n items.
CeilDiv(n, size) == (n + size - 1) \div size

\* Invocation i has started.
Started(i) == inv[i].pc # "idle"

\* Invocation i is inside the loop body of a bill.
InBill(i) == inv[i].pc \in {"chunk", "query", "update", "create"}

\* Invocation i is inside a bill and its syncLegislators call has fetched every chunk.
ChunksSettled(i) == InBill(i) /\ inv[i].pc # "chunk" /\ Len(inv[i].personIds) > 0

\* Invocation i is inside a bill and its syncLegislators call has returned.
LegislatorsReturned(i) == InBill(i) /\ inv[i].pc # "chunk" /\ inv[i].site \in {"subj", "bill"}

\* Invocation i is inside a bill and its syncSubjects call has returned.
SubjectsReturned(i) == InBill(i) /\ inv[i].pc # "chunk" /\ inv[i].site = "bill"

(***************************************************************************)
(* C1.  Running syncBills for a jurisdiction twice in succession, with the *)
(* same upstream data, no overlap and every store call succeeding, leaves  *)
(* the Bills table with as many records after the second run as after the  *)
(* first: the second run creates no bill.                                  *)
(***************************************************************************)
InSuccession(i, j) ==
  /\ j = i + 1
  /\ inv[i].pc = "done" /\ inv[j].pc = "done"
  /\ inv[i].result = "ok" /\ inv[j].result = "ok"
  /\ Jurisdiction(inv[i].state) = Jurisdiction(inv[j].state)
  /\ ~inv[i].storeFailed /\ ~inv[j].storeFailed

C1_Idempotent ==
  \A i, j \in Invocations :
    InSuccession(i, j) =>
      /\ inv[j].billsAfter = inv[i].billsAfter
      /\ inv[j].created["Bills"] = 0

\* The same, for the upstream lists in which every bill carries an ID: the runs
\* that break C1 are those over a bill without one.
C1_IdempotentWithIds ==
  \A i, j \in Invocations :
    (InSuccession(i, j) /\ \A k \in 1..Len(inv[i].bills) : Truthy(inv[i].bills[k].id)) =>
      /\ inv[j].billsAfter = inv[i].billsAfter
      /\ inv[j].created["Bills"] = 0

\* A second run in succession, every store call succeeding, has created a Bills record.
C1_Witness ==
  \E i, j \in Invocations :
    /\ InSuccession(i, j)
    /\ inv[j].created["Bills"] > 0
    /\ inv[j].billsAfter > inv[i].billsAfter

(***************************************************************************)
(* C2.  A findOrCreateRecord call that returns: if the table held a record *)
(* whose key field equals the key value, one such record is partially      *)
(* updated with the fields, its ID is returned and no record is created;   *)
(* otherwise exactly one record is created, with the fields, under a new   *)
(* ID, which is returned.                                                  *)
(***************************************************************************)
PartiallyUpdated(before, after, data) ==
  /\ after.id = before.id
  /\ DOMAIN after.fields = DOMAIN before.fields \cup DOMAIN data
  /\ \A f \in DOMAIN data : after.fields[f] = data[f]
  /\ \A f \in DOMAIN before.fields \ DOMAIN data : after.fields[f] = before.fields[f]

CallContract(c) ==
  LET held == {k \in 1..Len(c.pre) : FieldOf(c.pre[k], c.field) = c.value}
  IN  IF held # {}
      THEN /\ \E k \in held : c.pre[k].id = c.ret
           /\ Len(c.post) = Len(c.pre)
           /\ \A k \in 1..Len(c.pre) :
                IF c.pre[k].id = c.ret
                THEN PartiallyUpdated(c.pre[k], c.post[k], c.data)
                ELSE c.post[k] = c.pre[k]
      ELSE /\ Len(c.post) = Len(c.pre) + 1
           /\ SubSeq(c.post, 1, Len(c.pre)) = c.pre
           /\ c.post[Len(c.post)] = [id |-> c.ret, fields |-> c.data]
           /\ c.ret \notin IdsOf(c.pre)

C2_FindOrCreateContract ==
  \A i \in Invocations : inv[i].last.ok => CallContract(inv[i].last)

\* A call has returned after updating a record that kept a field the call did not name.
C2_Witness ==
  \E i \in Invocations :
    /\ inv[i].last.ok
    /\ inv[i].last.found # 0
    /\ inv[i].last.post # inv[i].last.pre
    /\ DOMAIN RecordOf(inv[i].last.post, inv[i].last.ret).fields # DOMAIN inv[i].last.data

(***************************************************************************)
(* C3.  Two invocations that both queried the same key of the same table,  *)
(* both saw no record and both created leave two records with that key.    *)
(* The witness is the interleaving in which this happens.                  *)
(***************************************************************************)
CreatedSameKey(i, j) ==
  /\ i # j
  /\ inv[i].last.ok /\ inv[j].last.ok
  /\ inv[i].last.found = 0 /\ inv[j].last.found = 0
  /\ inv[i].last.table = inv[j].last.table
  /\ inv[i].last.field = inv[j].last.field
  /\ inv[i].last.value = inv[j].last.value

C3_RaceDuplicates ==
  \A i, j \in Invocations :
    CreatedSameKey(i, j) =>
      LET t == inv[i].last.table
      IN  /\ inv[i].last.ret # inv[j].last.ret
          /\ \A r \in {inv[i].last.ret, inv[j].last.ret} :
               /\ r \in IdsOf(store[t])
               /\ FieldOf(RecordOf(store[t], r), inv[i].last.field) = inv[i].last.value

\* Two overlapping invocations have both seen "not found" for one key and both created.
C3_Witness ==
  \E i, j \in Invocations :
    /\ CreatedSameKey(i, j)
    /\ Cardinality({k \in 1..Len(store[inv[i].last.table]) :
                      FieldOf(store[inv[i].last.table][k], inv[i].last.field)
                        = inv[i].last.value}) >= 2

(***************************************************************************)
(* C4.  After any sequence of invocations that do not overlap, starting    *)
(* from empty tables, no table holds two records for the same upstream     *)
(* entity: no two records of a table agree on its key field.  (The         *)
(* upstream lists of Spec hold one bill and one person without an ID, so   *)
(* two records with an empty key are records of the same entity.)          *)
(***************************************************************************)
C4_OneRecordPerKey ==
  \A t \in Tables :
    \A a, b \in 1..Len(store[t]) :
      a # b => FieldOf(store[t][a], KeyField(t)) # FieldOf(store[t][b], KeyField(t))

\* The same, for the records of entities that carry an ID.
C4_OneRecordPerPresentKey ==
  \A t \in Tables :
    \A a, b \in 1..Len(store[t]) :
      (a # b /\ FieldOf(store[t][a], KeyField(t)) # "")
        => FieldOf(store[t][a], KeyField(t)) # FieldOf(store[t][b], KeyField(t))

\* The Bills table holds two records of the one bill that has no ID.
C4_Witness ==
  \E a, b \in 1..Len(store["Bills"]) :
    /\ a # b
    /\ store["Bills"][a].fields["OpenStates ID"] = ""
    /\ store["Bills"][b].fields["OpenStates ID"] = ""
    /\ store["Bills"][a].fields["Bill ID"] = store["Bills"][b].fields["Bill ID"]

(***************************************************************************)
(* C5.  Subjects are reconciled by the canonical name: two raw labels of a *)
(* bill whose canonical names are equal resolve to the same Subjects       *)
(* record, and the table holds one record under that name.                 *)
(***************************************************************************)
SameCanonicalName(a, b) == formatSubjectName(a) = formatSubjectName(b)

C5_SubjectsByCanonicalName ==
  \A i \in Invocations :
    InBill(i) =>
      LET l        == inv[i]
          subjects == l.bills[l.bi].subject
      IN  \A a, b \in 1..Len(l.subjectIds) :
            SameCanonicalName(subjects[l.okSubjects[a]], subjects[l.okSubjects[b]]) =>
              /\ l.subjectIds[a] = l.subjectIds[b]
              /\ Cardinality({k \in 1..Len(store["Subjects"]) :
                                store["Subjects"][k].fields["Subject Name"]
                                  = Show(formatSubjectName(subjects[l.okSubjects[a]]))}) = 1

\* Two different raw labels of one bill have resolved to one record.
C5_Witness ==
  \E i \in Invocations :
    /\ InBill(i)
    /\ \E a, b \in 1..Len(inv[i].subjectIds) :
         LET subjects == inv[i].bills[inv[i].bi].subject
         IN  /\ subjects[inv[i].okSubjects[a]] # subjects[inv[i].okSubjects[b]]
             /\ inv[i].subjectIds[a] = inv[i].subjectIds[b]

(***************************************************************************)
(* C6.  Bills are reconciled by the external bill ID, never by the         *)
(* identifier: a Bills reconcile for a bill with ID x returns a record     *)
(* that holds x and leaves every record that held another ID as it was,    *)
(* and no two records hold the same ID; so two bills that share an         *)
(* identifier and differ in their IDs have two records.                    *)
(***************************************************************************)
\* A returned call for an entity with ID x wrote the record of x and no other.
WroteOnlyItsOwn(c) ==
  LET x == c.data["OpenStates ID"]
  IN  /\ c.ret \in IdsOf(c.post)
      /\ FieldOf(RecordOf(c.post, c.ret), "OpenStates ID") = x
      /\ \A k \in 1..Len(c.pre) :
           FieldOf(c.pre[k], "OpenStates ID") # x => c.post[k] = c.pre[k]

OneRecordPerId(t) ==
  \A a, b \in 1..Len(store[t]) :
    (a # b /\ FieldOf(store[t][a], "OpenStates ID") # "")
      => FieldOf(store[t][a], "OpenStates ID") # FieldOf(store[t][b], "OpenStates ID")

C6_BillsByExternalId ==
  /\ OneRecordPerId("Bills")
  /\ \A i \in Invocations :
       (inv[i].last.ok /\ inv[i].last.site = "bill") => WroteOnlyItsOwn(inv[i].last)

\* Two records of two bills with one identifier and two IDs.
C6_Witness ==
  \E a, b \in 1..Len(store["Bills"]) :
    /\ store["Bills"][a].fields["Bill ID"] = store["Bills"][b].fields["Bill ID"]
    /\ store["Bills"][a].fields["OpenStates ID"] = "b1"
    /\ store["Bills"][b].fields["OpenStates ID"] = "b2"
    /\ store["Bills"][a].id # store["Bills"][b].id

(***************************************************************************)
(* C7.  Legislators are reconciled by the external person ID, never by the *)
(* name: of the stubs of one sponsor list that carry an ID, two resolve to *)
(* the same record exactly when their IDs are equal, whatever their names; *)
(* a Legislators reconcile writes the record of its own ID only, and no    *)
(* two records hold the same ID.                                           *)
(***************************************************************************)
C7_LegislatorsByPersonId ==
  /\ OneRecordPerId("Legislators")
  /\ \A i \in Invocations :
       /\ (inv[i].last.ok /\ inv[i].last.site = "leg") => WroteOnlyItsOwn(inv[i].last)
       /\ InBill(i) =>
            LET l == inv[i]
            IN  \A a, b \in 1..Len(l.legislatorIds) :
                  LET p == l.people[l.okPeople[a]]
                      q == l.people[l.okPeople[b]]
                  IN  (Truthy(p.id) /\ Truthy(q.id)) =>
                        ((p.id = q.id) <=> (l.legislatorIds[a] = l.legislatorIds[b]))

\* One sponsor list has resolved two stubs of one name and two IDs to two records,
\* and two stubs of one ID and two names to one record.
C7_Witness ==
  \E i \in Invocations :
    /\ InBill(i)
    /\ \E a, b, c \in 1..Len(inv[i].legislatorIds) :
         LET p == inv[i].people[inv[i].okPeople[a]]
             q == inv[i].people[inv[i].okPeople[b]]
             r == inv[i].people[inv[i].okPeople[c]]
         IN  /\ p.name = q.name /\ p.id # q.id
             /\ inv[i].legislatorIds[a] # inv[i].legislatorIds[b]
             /\ q.id = r.id /\ q.name # r.name
             /\ inv[i].legislatorIds[b] = inv[i].legislatorIds[c]

(***************************************************************************)
(* C8.  For a sponsor list with n distinct non-empty person IDs,           *)
(* syncLegislators issues ceil(n / 10) GET /people requests, each with at  *)
(* least one and at most 10 IDs, and every distinct ID is carried by       *)
(* exactly one request, once, however often the list repeats it.           *)
(***************************************************************************)
\* The distinct non-empty person IDs of a sponsor list.
DistinctIds(people) == {people[k].id : k \in 1..Len(people)} \ {Undefined, ""}

\* The IDs the requests carry, request after request.
RECURSIVE CarriedIds(_)
CarriedIds(requests) ==
  IF requests = <<>> THEN <<>> ELSE requests[1].ids \o CarriedIds(Tail(requests))

C8_ChunkedFetch ==
  \A i \in Invocations :
    InBill(i) =>
      LET l        == inv[i]
          distinct == DistinctIds(l.people)
          carried  == CarriedIds(l.requests)
          n        == Cardinality(distinct)
      IN  /\ Len(l.requests) <= CeilDiv(n, chunkSize)
          /\ (l.pc # "chunk") => Len(l.requests) = CeilDiv(n, chunkSize)
          /\ \A r \in 1..Len(l.requests) :
               /\ Len(l.requests[r].ids) >= 1
               /\ Len(l.requests[r].ids) <= chunkSize
          \* no ID is carried twice, and none that is not of the list
          /\ Cardinality(Range(carried)) = Len(carried)
          /\ Range(carried) \subseteq distinct
          \* once the chunks are fetched, every ID of the list was carried
          /\ (l.pc # "chunk") => Range(carried) = distinct

\* 25 distinct IDs, one of them listed twice, have been fetched in 3 requests.
C8_Witness ==
  \E i \in Invocations :
    /\ InBill(i) /\ inv[i].pc # "chunk"
    /\ Cardinality(DistinctIds(inv[i].people)) = 25
    /\ Len(inv[i].people) > 25
    /\ Len(inv[i].requests) = 3

(***************************************************************************)
(* C9.  A failed GET /people for one chunk stops nothing: all the chunks   *)
(* are requested, peopleMap holds the results of the ones that answered,   *)
(* a person of a failed chunk is reconciled by its ID from its stub data,  *)
(* and syncLegislators returns: with the store calls succeeding, it        *)
(* returns one ID per stub, and the invocation throws only when GET /bills *)
(* failed.  (A list in which no stub carries an ID is returned from at     *)
(* line 90, before any request, and is no case of this claim.)             *)
(***************************************************************************)
\* The IDs of the requests that answered, and of those that failed.
Answered(requests) == UNION {Range(requests[r].ids) : r \in {r \in 1..Len(requests) : requests[r].ok}}

Unanswered(requests) ==
  UNION {Range(requests[r].ids) : r \in {r \in 1..Len(requests) : ~requests[r].ok}}

\* The field set of a person reconciled from the stub alone.
StubData(stub) == ("Full Name" :> stub.name) @@ ("OpenStates ID" :> stub.id)

C9_ChunkFailureIsolated ==
  \A i \in Invocations :
    LET l == inv[i]
    IN  /\ ChunksSettled(i) =>
             /\ Len(l.requests) = CeilDiv(Cardinality(DistinctIds(l.people)), chunkSize)
             /\ DOMAIN l.peopleMap = Answered(l.requests) \cap upstream.known
             /\ \A id \in DOMAIN l.peopleMap : l.peopleMap[id] = FullPerson(id)
        /\ (ChunksSettled(i) /\ l.site = "leg" /\ l.pc = "query") =>
             LET stub == l.people[l.pi]
             IN  /\ stub.id \in Unanswered(l.requests) =>
                      (l.call.value = stub.id /\ l.call.data = StubData(stub))
                 /\ stub.id \in Answered(l.requests) \cap upstream.known =>
                      (l.call.value = stub.id
                         /\ l.call.data["Full Name"] = FullPerson(stub.id).name)
        /\ (LegislatorsReturned(i) /\ Len(l.personIds) > 0 /\ ~l.storeFailed) =>
             /\ Len(l.sponsorIds) = Len(l.people)
             /\ \A k \in 1..Len(l.people) :
                  Truthy(l.people[k].id) =>
                    /\ l.sponsorIds[k] \in IdsOf(store["Legislators"])
                    /\ FieldOf(RecordOf(store["Legislators"], l.sponsorIds[k]), "OpenStates ID")
                         = l.people[k].id
        /\ l.result = "threw" => (l.pc = "done" /\ l.bi = 0)

\* The first of three chunks failed, the other two were requested and answered,
\* and a person of the failed chunk is about to be reconciled from its stub.
C9_Witness ==
  \E i \in Invocations :
    /\ ChunksSettled(i) /\ inv[i].site = "leg" /\ inv[i].pc = "query"
    /\ Len(inv[i].requests) = 3
    /\ ~inv[i].requests[1].ok /\ inv[i].requests[2].ok /\ inv[i].requests[3].ok
    /\ inv[i].people[inv[i].pi].id \in Unanswered(inv[i].requests) \cap upstream.known
    /\ DOMAIN inv[i].peopleMap # {}

(***************************************************************************)
(* C10.  The Sponsors field written to a Bills record has at most 10       *)
(* entries and is the first 10, in sponsor input order, of the IDs         *)
(* syncLegislators returned; Subject Areas likewise, of the IDs            *)
(* syncSubjects returned.                                                  *)
(***************************************************************************)
\* What a link field of a bill's field set must be, given the IDs returned.
LinkFieldRight(data, field, returned) ==
  IF Len(returned) = 0
  THEN field \notin DOMAIN data
  ELSE /\ field \in DOMAIN data
       /\ Len(data[field]) <= 10
       /\ data[field] = FirstN(returned, 10)

\* The IDs returned are those of the stubs reconciled, in the order of the list.
InInputOrder(l) ==
  /\ Len(l.sponsorIds) = Len(l.okPeople)
  /\ \A a, b \in 1..Len(l.okPeople) : a < b => l.okPeople[a] < l.okPeople[b]
  /\ \A a \in 1..Len(l.okPeople) :
       Truthy(l.people[l.okPeople[a]].id) =>
         FieldOf(RecordOf(store["Legislators"], l.sponsorIds[a]), "OpenStates ID")
           = l.people[l.okPeople[a]].id

C10_LinksCapped ==
  /\ \A k \in 1..Len(store["Bills"]) :
       \A field \in {"Sponsors", "Subject Areas"} :
         field \in DOMAIN store["Bills"][k].fields =>
           Len(store["Bills"][k].fields[field]) <= 10
  /\ \A i \in Invocations :
       SubjectsReturned(i) =>
         /\ LinkFieldRight(inv[i].call.data, "Sponsors", inv[i].sponsorIds)
         /\ LinkFieldRight(inv[i].call.data, "Subject Areas", inv[i].subjectIds)
         /\ InInputOrder(inv[i])

\* A bill whose sponsors have more than 10 Legislators records has been written
\* with 10 of them.
C10_Witness ==
  \E i \in Invocations :
    /\ inv[i].last.ok /\ inv[i].last.site = "bill"
    /\ "Sponsors" \in DOMAIN inv[i].last.data
    /\ Len(inv[i].last.data["Sponsors"]) = 10
    /\ Len(store["Legislators"]) > 10
    /\ Range(inv[i].last.data["Sponsors"]) \subseteq IdsOf(store["Legislators"])
    /\ RecordOf(store["Bills"], inv[i].last.ret).fields["Sponsors"]
         = inv[i].last.data["Sponsors"]

(***************************************************************************)
(* SpecHandler: one request to the manual endpoint.                        *)
(***************************************************************************)
ca == <<"c", "a">>

dc == <<"d", "c">>

Methods == {"POST", "GET"}

Authorizations ==
  {Undefined, "Bearer " \o WEBHOOK_SECRET, "Bearer wrong", WEBHOOK_SECRET,
   "bearer " \o WEBHOOK_SECRET}

Bodies ==
  { NoBody,
    Body(Missing, Missing),
    Body(StateValue(<<>>), Missing),
    Body(StateValue(ca), Missing),
    Body(Missing, StatesString(ca)),
    Body(StateValue(dc), StatesString(ca)),
    Body(Missing, StatesArray(<<>>)),
    Body(Missing, StatesArray(<<ca, dc>>)),
    Body(StateValue(dc), StatesArray(<<ca>>)),
    Body(Missing, StatesArray(<<dc, ca, ca>>)),
    Body(Missing, StatesArray(<<dc, dc>>)) }

\* The request arrives: the handler runs to its first remote call or its response.
Receive(i) ==
  /\ i = runs + 1
  /\ runsLeft > 0
  /\ inv[i].pc = "idle"
  /\ \A j \in Invocations : inv[j].pc \in {"idle", "responded"}
  /\ \E method \in Methods, authorization \in Authorizations, body \in Bodies :
       inv' = [inv EXCEPT ![i] = EnterHandler(IdleLocal, method, authorization, body)]
  /\ runs' = runs + 1
  /\ runsLeft' = runsLeft - 1
  /\ UNCHANGED <<calc, sched, upstream, store, nextId, failuresLeft>>

\* GET /jurisdictions/<state> answers: syncState begins.
FetchJurisdictionOk(i) ==
  /\ inv[i].pc = "jurisdiction"
  /\ LET l == inv[i]
     IN  inv' = [inv EXCEPT ![i] =
                   EnterState([l EXCEPT !.fetches = Append(@, [kind |-> "jurisdiction",
                                                               hi |-> l.h.hi, ok |-> TRUE])],
                              upstream.jurisdictions[Show(l.state)])]
  /\ UNCHANGED <<calc, sched, upstream, store, nextId, runs, runsLeft, failuresLeft>>

\* GET /jurisdictions/<state> fails: the jurisdiction's result is a failure.
FetchJurisdictionFail(i) ==
  /\ inv[i].pc = "jurisdiction"
  /\ failuresLeft > 0
  /\ failuresLeft' = failuresLeft - 1
  /\ LET l == inv[i]
     IN  inv' = [inv EXCEPT ![i] =
                   JurisdictionFailed([l EXCEPT !.fetches = Append(@, [kind |-> "jurisdiction",
                                                                       hi |-> l.h.hi,
                                                                       ok |-> FALSE])])]
  /\ UNCHANGED <<calc, sched, upstream, store, nextId, runs, runsLeft>>

OcdId(kind, code) ==
  <<"o","c","d","-","j","u","r","i","s","d","i","c","t","i","o","n","/",
    "c","o","u","n","t","r","y",":","u","s","/">> \o kind \o <<":">> \o code
    \o <<"/","g","o","v","e","r","n","m","e","n","t">>

California ==
  [id |-> OcdId(<<"s","t","a","t","e">>, ca), name |-> "California",
   legislature_name |-> "California State Legislature"]

DistrictOfColumbia ==
  [id |-> OcdId(<<"d","i","s","t","r","i","c","t">>, dc),
   name |-> "District of Columbia", legislature_name |-> Undefined]

HandlerUpstreams ==
  { [bills |-> [j \in {"ca", "dc"} |-> IF j = "ca" THEN <<BillA, BillD>> ELSE <<>>],
     known |-> {"p1"},
     jurisdictions |-> [j \in {"ca", "dc"} |->
                          IF j = "ca" THEN California ELSE DistrictOfColumbia]] }

InitHandler == InitWith(HandlerUpstreams, 1, MaxFailures)

NextHandler ==
  \E i \in Invocations :
    Receive(i) \/ FetchJurisdictionOk(i) \/ FetchJurisdictionFail(i) \/ Step(i)

SpecHandler == InitHandler /\ [][NextHandler]_vars

\* A remote call of a request in progress returns or fails.
HandlerProgress ==
  \E i \in Invocations : FetchJurisdictionOk(i) \/ FetchJurisdictionFail(i) \/ Step(i)

\* A request waits for the answer of an upstream or store call.
AwaitingCall ==
  \E i \in Invocations :
    inv[i].pc \in {"jurisdiction", "fetchBills", "chunk", "query", "update", "create"}

\* Every upstream and store call eventually returns or fails: a request does not
\* wait for ever.  This is WF_vars(HandlerProgress) written out, with the state
\* predicate AwaitingCall for ENABLED <<HandlerProgress>>_vars (a pending call can
\* always return) and for the steps of HandlerProgress the steps taken while a
\* call is awaited (no other action is enabled then).
CallsEnd == []<>(~AwaitingCall) \/ []<><<AwaitingCall>>_vars

\* SpecHandler when every upstream and store call eventually returns or fails.
SpecHandlerFair == InitHandler /\ [][NextHandler]_vars /\ CallsEnd

(***************************************************************************)
(* SpecSched: one run of the scheduled endpoint.  An invocation of the     *)
(* manual endpoint is a remote HTTP request: it answers with a status, or  *)
(* the fetch throws.                                                       *)
(***************************************************************************)
\* A variant whose batches overlap by one jurisdiction.
BatchOverlapping(i) == Slice(states, i, i + batchSize + 1)

\* The batch that starts at index i (line 29).
Batch(i) == Slice(states, i, i + batchSize)

\* lines 29-55: the batch at i is posted, every request at once.
IssueBatch(s, i) ==
  [s EXCEPT !.pc = "batch", !.i = i, !.pending = Range(Batch(i)),
            !.posts = Append(@, Batch(i))]

\* The length of a results array, from the pushes counted per jurisdiction.
RECURSIVE Pushes(_, _)
Pushes(count, among) ==
  IF among = {} THEN 0
  ELSE LET s == CHOOSE x \in among : TRUE
       IN  count[s] + Pushes(count, among \ {s})

\* lines 63-68.
RespondSched(s) ==
  [s EXCEPT !.pc = "responded", !.status = 200,
            !.response = [successCount |-> Pushes(s.success, DOMAIN s.success),
                          failedCount |-> Pushes(s.failed, DOMAIN s.failed),
                          total |-> Len(states)]]

\* A variant in which the loop goes on as soon as one request of the batch has
\* settled.
AfterSettleFirst(s) ==
  IF s.i + batchSize < Len(states) THEN [s EXCEPT !.pc = "delay"]
  ELSE IF s.pending # {} THEN s
  ELSE RespondSched(s)

\* lines 56-61: a request of the batch has settled; when it was the last one the
\* loop pauses before the next batch, or the run responds.
AfterSettle(s) ==
  IF s.pending # {} THEN s
  ELSE IF s.i + batchSize < Len(states) THEN [s EXCEPT !.pc = "delay"]
  ELSE RespondSched(s)

\* The Authorization headers a cron request may carry.
SchedAuthorizations ==
  {Undefined, "Bearer " \o CRON_SECRET, "Bearer " \o WEBHOOK_SECRET, CRON_SECRET}

\* A variant in which the bare secret is accepted as well.
SchedAuthorizedBySecret(authorization) ==
  authorization \in {CRON_SECRET, "Bearer " \o Interpolate(CRON_SECRET)}

\* scheduled-sync.js, line 7: the header is the bearer form of the cron secret.
SchedAuthorized(authorization) == authorization = "Bearer " \o Interpolate(CRON_SECRET)

\* The cron request arrives (lines 4-31).
SchedReceive ==
  /\ sched.pc = "idle"
  /\ \E authorization \in SchedAuthorizations :
       sched' = IF ~SchedAuthorized(authorization)
                THEN [sched EXCEPT !.pc = "responded", !.status = 401,
                                   !.authorization = authorization,
                                   !.response = [error |-> "Unauthorized"]]
                ELSE IssueBatch([sched EXCEPT !.authorization = authorization], 0)
  /\ UNCHANGED <<calc, upstream, store, nextId, inv, runs, runsLeft, failuresLeft>>

\* The statuses a manual endpoint answers with.
OkStatuses == {200}

ErrorStatuses == {500}

\* lines 46-47: the invocation for state answered 2xx.
SettleOk(state) ==
  /\ sched.pc = "batch"
  /\ state \in sched.pending
  /\ \E status \in OkStatuses :
       sched' = AfterSettle([sched EXCEPT !.pending = @ \ {state},
                                          !.success[state] = @ + 1,
                                          !.answers[state] = ToString(status)])
  /\ UNCHANGED <<calc, upstream, store, nextId, inv, runs, runsLeft, failuresLeft>>

\* A variant that reads the body and counts a reported failure as a failure.
SettleOkFailedInsideCounted(state) ==
  /\ sched.pc = "batch"
  /\ state \in sched.pending
  /\ failuresLeft > 0
  /\ failuresLeft' = failuresLeft - 1
  /\ sched' = AfterSettle([sched EXCEPT !.pending = @ \ {state},
                                        !.failed[state] = @ + 1,
                                        !.answers[state] = "200",
                                        !.failedInside = @ \cup {state}])
  /\ UNCHANGED <<calc, upstream, store, nextId, inv, runs, runsLeft>>

\* The jurisdictions whose sync may fail inside the manual endpoint: those
\* whose requests SpecHandler follows.
InsideFailures == {"ca", "dc"}

\* lines 46-47: the invocation for state answered 2xx with a body whose result
\* for the jurisdiction has success false (sync-bills.js, lines 660-677).
SettleOkFailedInside(state) ==
  /\ sched.pc = "batch"
  /\ state \in sched.pending
  /\ state \in InsideFailures
  /\ failuresLeft > 0
  /\ failuresLeft' = failuresLeft - 1
  /\ \E status \in OkStatuses :
       sched' = AfterSettle([sched EXCEPT !.pending = @ \ {state},
                                          !.success[state] = @ + 1,
                                          !.answers[state] = ToString(status),
                                          !.failedInside = @ \cup {state}])
  /\ UNCHANGED <<calc, upstream, store, nextId, inv, runs, runsLeft>>

\* lines 48-50: the invocation for state answered with an error status.
SettleNotOk(state) ==
  /\ sched.pc = "batch"
  /\ state \in sched.pending
  /\ failuresLeft > 0
  /\ failuresLeft' = failuresLeft - 1
  /\ \E status \in ErrorStatuses :
       sched' = AfterSettle([sched EXCEPT !.pending = @ \ {state},
                                          !.failed[state] = @ + 1,
                                          !.answers[state] = ToString(status)])
  /\ UNCHANGED <<calc, upstream, store, nextId, inv, runs, runsLeft>>

\* A variant in which a fetch that threw leaves no trace in the results.
SettleThrowsUnrecorded(state) ==
  /\ sched.pc = "batch"
  /\ state \in sched.pending
  /\ failuresLeft > 0
  /\ failuresLeft' = failuresLeft - 1
  /\ sched' = AfterSettle([sched EXCEPT !.pending = @ \ {state},
                                        !.answers[state] = "threw"])
  /\ UNCHANGED <<calc, upstream, store, nextId, inv, runs, runsLeft>>

\* lines 51-53: the fetch for state threw.
SettleThrows(state) ==
  /\ sched.pc = "batch"
  /\ state \in sched.pending
  /\ failuresLeft > 0
  /\ failuresLeft' = failuresLeft - 1
  /\ sched' = AfterSettle([sched EXCEPT !.pending = @ \ {state},
                                        !.failed[state] = @ + 1,
                                        !.answers[state] = "threw"])
  /\ UNCHANGED <<calc, upstream, store, nextId, inv, runs, runsLeft>>

\* lines 58-60 and 28: the pause is over; the next batch is posted.
DelayElapsed ==
  /\ sched.pc = "delay"
  /\ sched' = IssueBatch(sched, sched.i + batchSize)
  /\ UNCHANGED <<calc, upstream, store, nextId, inv, runs, runsLeft, failuresLeft>>

SchedUpstreams == {[bills |-> [j \in {"ca"} |-> <<>>], known |-> {}]}

InitSched == InitWith(SchedUpstreams, 0, MaxFailures)

NextSched ==
  \/ SchedReceive
  \/ DelayElapsed
  \/ \E state \in Range(states) :
       \/ SettleOk(state) \/ SettleOkFailedInside(state)
       \/ SettleNotOk(state) \/ SettleThrows(state)

SpecSched == InitSched /\ [][NextSched]_vars

(***************************************************************************)
(* The text helpers on their own: one call of determineStatus,             *)
(* normalizeDate, formatSubjectName or categorizeSubject on an argument    *)
(* drawn from the sets below, and formatSubjectName applied again to what  *)
(* it returned, as happens when a stored name comes back as a label.       *)
(***************************************************************************)
MaxLabelLen == 4

LabelChars == {"a", "A", "B", "_", " "}

\* Every label of at most MaxLabelLen characters over LabelChars.
ShortLabels == UNION {[1..n -> LabelChars] : n \in 0..MaxLabelLen}

\* Labels as upstream spells them, the table's keys in several casings, and
\* names every object inherits.
NamedLabels ==
  { <<"P","U","B","L","I","C","_","S","A","F","E","T","Y">>, <<"p","u","b","l","i","c","_","s","a","f","e","t","y">>, <<"L","a","w","e","n","f","o","r","c","e","m","e","n","t">>, <<"L","A","W","E","N","F","O","R","C","E","M","E","N","T">>,
    <<"l","a","w","E","n","f","o","r","c","e","m","e","n","t">>, <<"L","A","W","E","n","f","o","r","c","e","m","e","n","t">>, <<"P","u","b","l","i","c","S","a","f","e","t","y">>, <<"p","u","b","l","i","c","s","a","f","e","t","y">>,
    <<"P","e","a","c","e","o","f","f","i","c","e","r","s">>, <<"E","c","o","n","o","m","i","c","d","e","v","e","l","o","p","m","e","n","t">>, <<"H","e","a","l","t","h","C","a","r","e">>,
    <<"C","a","l","i","f","o","r","n","i","a","S","c","i","e","n","c","e","a","n","d","H","e","a","l","t","h">>, <<"C","a","l","i","f","o","r","n","i","a","s","c","i","e","n","c","e","a","n","d","h","e","a","l","t","h">>,
    <<"H","E","A","L","T","H","_","E","D","U","C","A","T","I","O","N">>, <<"S","c","h","o","o","l","T","a","x">>, <<"B","r","o","a","d","b","a","n","d">>, <<"V","e","h","i","c","l","e","T","a","x">>,
    <<"P","r","i","s","o","n","H","o","s","p","i","t","a","l">>, <<"E","l","e","c","t","i","o","n","s">>,
    <<"c","o","n","s","t","r","u","c","t","o","r">>, <<"C","o","n","s","t","r","u","c","t","o","r">>, <<"C","O","N","S","T","R","U","C","T","O","R">> }

Labels == ShortLabels \cup NamedLabels

\* Every keyword of the category table in capitals, and every two keywords
\* run together, the first capitalized.
KeywordsOf(k) == Range(categories[k].keywords)

AllKeywords == UNION {KeywordsOf(k) : k \in 1..Len(categories)}

ToUpperCase(s) == [k \in 1..Len(s) |-> ToUpperChar(s[k])]

KeywordLabels ==
  {ToUpperCase(kw) : kw \in AllKeywords}
    \cup {CapitalizeFirst(categories[a].keywords[1]) \o CapitalizeFirst(categories[b].keywords[1]) :
            a, b \in 1..Len(categories)}

\* The keywords of determineStatus as an action text may spell them.
StatusWords ==
  [signed |-> <<"S","i","g","n","e","d">>, enacted |-> <<"E","N","A","C","T","E","D">>, vetoed |-> <<"V","e","t","o","e","d">>,
   failed |-> <<"f","a","i","l","e","d">>, died |-> <<"D","i","e","d">>, passed |-> <<"P","A","S","S","E","D">>,
   senate |-> <<"S","e","n","a","t","e">>, house |-> <<"H","O","U","S","E">>, committee |-> <<"C","o","m","m","i","t","t","e","e">>]

StatusKeywords ==
  <<"signed", "enacted", "vetoed", "failed", "died", "passed", "senate", "house", "committee">>

\* An action text that holds exactly the keywords of given.
RECURSIVE ActionWords(_, _)
ActionWords(given, k) ==
  IF k > Len(StatusKeywords) THEN <<>>
  ELSE (IF StatusKeywords[k] \in given THEN <<" ">> \o StatusWords[StatusKeywords[k]] ELSE <<>>)
         \o ActionWords(given, k + 1)

ActionText(given) == <<"A","c","t","i","o","n",":">> \o ActionWords(given, 1)

\* The strings with a leading date, by their first ten characters and the rest.
DatePrefixes == { <<"2","0","2","5","-","0","2","-","1","9">>, <<"2","0","2","0","-","0","1","-","1","5">>, <<"1","9","9","9","-","1","2","-","3","1">>, <<"2","0","2","5","-","1","3","-","4","5">> }

DateSuffixes == { <<>>, <<"T","0","5",":","0","0",":","0","0","+","0","0",":","0","0">>, <<" ","1","2",":","3","0">>, <<"x">> }

\* Slash dates, which only general parsing reads.
SlashDates == { <<"2","/","1","9","/","2","0","2","5">>, <<"3","/","1","/","2","0","2","4">>, <<"1","/","1","/","2","0","2","5">>, <<"1","2","/","3","1","/","1","9","9","9">> }

\* Text that spells no date.
Unparsable == { <<"T","B","D">>, <<"p","e","n","d","i","n","g">>, <<"n","o","t"," ","a"," ","d","a","t","e">> }

DateInputs ==
  {JsNull, JsUndefined, Str(<<>>), Num(<<"0">>), Num(<<"2","0","2","5","0","2","1","9">>)}
    \cup {Str(p \o s) : p \in DatePrefixes, s \in DateSuffixes}
    \cup {Str(s) : s \in SlashDates \cup Unparsable}

\* determineStatus(bill) is evaluated.
CallDetermineStatus ==
  /\ calc.fn = "none"
  /\ \/ \E given \in SUBSET Range(StatusKeywords) :
          calc' = [calc EXCEPT !.fn = "determineStatus", !.arg = Str(ActionText(given)),
                               !.given = given, !.pass = 1, !.outcome = "returned",
                               !.out = determineStatus([latest_action_description |->
                                                          Str(ActionText(given))])]
     \/ \E description \in {JsUndefined, JsNull, Str(<<>>)} :
          calc' = [calc EXCEPT !.fn = "determineStatus", !.arg = description,
                               !.pass = 1, !.outcome = "returned",
                               !.out = determineStatus([latest_action_description |->
                                                          description])]
  /\ UNCHANGED <<upstream, store, nextId, inv, runs, runsLeft, failuresLeft, sched>>

\* normalizeDate(dateString) is evaluated.
CallNormalizeDate ==
  /\ calc.fn = "none"
  /\ \E dateString \in DateInputs, zone \in Zones :
       LET result == normalizeDate(dateString, zone)
       IN  calc' = [calc EXCEPT !.fn = "normalizeDate", !.arg = dateString, !.zone = zone,
                                !.pass = 1, !.outcome = result.outcome,
                                !.out = result.value]
  /\ UNCHANGED <<upstream, store, nextId, inv, runs, runsLeft, failuresLeft, sched>>

\* formatSubjectName applied to a value: a value without an includes method
\* makes line 337 throw.
FormatCall(subject) ==
  IF subject.kind # "string" THEN Throws
  ELSE LET formatted == formatSubjectName(subject.text)
       IN  Returns(IF formatted = ObjectFunction THEN Fn(formatted) ELSE Str(formatted))

\* formatSubjectName(subject) is evaluated.
CallFormatSubjectName ==
  /\ calc.fn = "none"
  /\ \E subject \in Labels :
       LET result == FormatCall(Str(subject))
       IN  calc' = [calc EXCEPT !.fn = "formatSubjectName", !.arg = Str(subject),
                                !.pass = 1, !.outcome = result.outcome,
                                !.out = result.value]
  /\ UNCHANGED <<upstream, store, nextId, inv, runs, runsLeft, failuresLeft, sched>>

\* formatSubjectName is applied to what it returned.
Reformat ==
  /\ calc.fn = "formatSubjectName"
  /\ calc.pass = 1
  /\ calc.outcome = "returned"
  /\ LET result == FormatCall(calc.out)
     IN  calc' = [calc EXCEPT !.arg = calc.out, !.pass = 2, !.outcome = result.outcome,
                              !.out = result.value]
  /\ UNCHANGED <<upstream, store, nextId, inv, runs, runsLeft, failuresLeft, sched>>

\* categorizeSubject(subject) is evaluated.
CallCategorizeSubject ==
  /\ calc.fn = "none"
  /\ \E subject \in Labels \cup KeywordLabels :
       calc' = [calc EXCEPT !.fn = "categorizeSubject", !.arg = Str(subject),
                            !.pass = 1, !.outcome = "returned",
                            !.out = categorizeSubject(subject)]
  /\ UNCHANGED <<upstream, store, nextId, inv, runs, runsLeft, failuresLeft, sched>>

InitText == InitWith(SchedUpstreams, 0, 0)

NextText ==
  \/ CallDetermineStatus
  \/ CallNormalizeDate
  \/ CallFormatSubjectName
  \/ Reformat
  \/ CallCategorizeSubject

SpecText == InitText /\ [][NextText]_vars

(***************************************************************************)
(* SpecDegraded: runs one after another over a bill whose sponsor stubs    *)
(* carry an ID and little else, so that a run whose GET /people failed     *)
(* reconciles an existing legislator from less than the store holds, and   *)
(* a run for the second jurisdiction meets a stored bill without sponsors.  *)
(***************************************************************************)
\* A stub with an ID and no name.
Nameless1 == Stub("p1", Undefined)

BillE ==
  [id |-> "b5", identifier |-> "HB 5", title |-> "Title E",
   sponsorships |-> <<Sponsorship(Nameless1), Sponsorship(Lee2)>>, subject |-> <<taxPolicy>>]

\* BillE as upstream lists it once its sponsors and subjects are withdrawn.
BillEBare ==
  [id |-> "b5", identifier |-> "HB 5", title |-> "Title E",
   sponsorships |-> <<>>, subject |-> <<>>]

DegradedLists == { <<BillE>>, <<BillA>>, <<BillE, BillA>> }

DegradedUpstreams ==
  { [bills |-> [j \in {"ca", "nc"} |-> IF j = "ca" THEN list ELSE <<BillEBare>>], known |-> {"p1"}] : list \in DegradedLists }

InitDegraded == InitWith(DegradedUpstreams, MaxInvocations, MaxFailures)

SpecDegraded == InitDegraded /\ [][Next]_vars

(***************************************************************************)
(* What the log of an invocation says.                                     *)
(***************************************************************************)
\* The findOrCreateRecord calls that invocation l made from a site while it
\* served its current jurisdiction, in the order they ended.
Calls(l, site) == SelectSeq(l.log, LAMBDA e : e.site = site /\ e.hi = l.h.hi)

\* The same, for the bill at position bi.
CallsOfBill(l, site, bi) == SelectSeq(Calls(l, site), LAMBDA e : e.bi = bi)

\* The calls of a sequence that returned.
Returned(calls) == SelectSeq(calls, LAMBDA e : e.ok)

\* 1, 2, ..., n
UpTo(n) == [k \in 1..n |-> k]

\* syncBills of invocation i has returned to a direct caller.
ReturnedOk(i) == inv[i].pc = "done" /\ inv[i].result = "ok"

(***************************************************************************)
(* C11.  A bill whose reconcile fails stops nothing: every fetched bill    *)
(* gets its Bills reconcile, once and in order; syncBills returns          *)
(* success with total the number of bills fetched and synced the number    *)
(* of bills whose Bills reconcile returned, so synced <= total.            *)
(***************************************************************************)
C11_BillFailureIsolated ==
  \A i \in Invocations :
    LET l     == inv[i]
        calls == Calls(l, "bill")
    IN  /\ InBill(i) =>
             /\ [k \in 1..Len(calls) |-> calls[k].bi] = UpTo(l.bi - 1)
             /\ l.syncedCount = Len(Returned(calls))
             /\ l.syncedCount <= Len(l.bills)
        /\ ReturnedOk(i) =>
             /\ [k \in 1..Len(calls) |-> calls[k].bi] = UpTo(Len(l.bills))
             /\ l.syncedCount = Len(Returned(calls))
             /\ l.syncedCount <= Len(l.bills)
        /\ (l.pc = "done" /\ Len(calls) > 0) => l.result = "ok"

\* syncBills has returned success with synced 1 and total 2: the reconcile of the
\* first bill failed and the second bill was reconciled.
C11_Witness ==
  \E i \in Invocations :
    /\ ReturnedOk(i)
    /\ Len(inv[i].bills) = 2 /\ inv[i].syncedCount = 1
    /\ LET calls == Calls(inv[i], "bill")
       IN  Len(calls) = 2 /\ ~calls[1].ok /\ calls[2].ok

(***************************************************************************)
(* C12.  A subject whose reconcile fails stops nothing: syncSubjects       *)
(* reconciles every subject of the bill, once and in order, returns the    *)
(* IDs of those that returned, in input order, and the bill's own          *)
(* reconcile follows.                                                      *)
(***************************************************************************)
C12_SubjectFailureIsolated ==
  \A i \in Invocations :
    SubjectsReturned(i) =>
      LET l     == inv[i]
          calls == CallsOfBill(l, "subj", l.bi)
          ok    == Returned(calls)
      IN  /\ [k \in 1..Len(calls) |-> calls[k].si] = UpTo(Len(l.bills[l.bi].subject))
          /\ l.subjectIds = [k \in 1..Len(ok) |-> ok[k].ret]
          /\ l.call.table = "Bills"
          /\ l.call.value = l.bills[l.bi].id

\* The first of a bill's two subjects failed, the second was reconciled, and the
\* bill is being reconciled with the one ID.
C12_Witness ==
  \E i \in Invocations :
    /\ SubjectsReturned(i)
    /\ LET calls == CallsOfBill(inv[i], "subj", inv[i].bi)
       IN  Len(calls) = 2 /\ ~calls[1].ok /\ calls[2].ok
             /\ inv[i].subjectIds = <<calls[2].ret>>
    /\ inv[i].call.data["Subject Areas"] = inv[i].subjectIds

(***************************************************************************)
(* What a request to the manual endpoint was, and what came of it.         *)
(***************************************************************************)
\* Invocation i serves a request.
Serving(i) == inv[i].h.mode = "handler"

\* Invocation i has answered its request.
Responded(i) == Serving(i) /\ inv[i].pc = "responded"

\* The request of invocation i is a POST with the right Authorization header.
AuthenticatedPost(i) ==
  /\ Serving(i)
  /\ inv[i].h.method = "POST"
  /\ inv[i].h.authorization = "Bearer " \o WEBHOOK_SECRET

\* The upstream requests of a kind that invocation l made for jurisdiction k.
FetchesFor(l, kind, k) == SelectSeq(l.fetches, LAMBDA f : f.kind = kind /\ f.hi = k)

\* Invocation l has made no upstream request and no store call.
NothingCalled(l) ==
  /\ l.fetches = <<>> /\ l.requests = <<>> /\ l.log = <<>>
  /\ l.call = NoCall /\ l.last = NoLast

RECURSIVE SumOf(_, _)
\* The sum of a field over the successful results of a results array.
SumOf(results, field) ==
  IF results = <<>> THEN 0
  ELSE (IF results[1].success THEN results[1][field] ELSE 0)
         + SumOf(Tail(results), field)

(***************************************************************************)
(* C13.  For an authenticated request that lists jurisdictions, results    *)
(* gets one entry per jurisdiction, in request order; the entry is         *)
(* {success: false, error} exactly when the jurisdiction fetch or the      *)
(* bills fetch of that jurisdiction failed, and whatever fails, every      *)
(* later jurisdiction is fetched and gets its entry.                       *)
(***************************************************************************)
\* Entry k is right for jurisdiction k of the request.
ResultRight(l, k) ==
  LET r  == l.h.results[k]
      js == FetchesFor(l, "jurisdiction", k)
      bs == FetchesFor(l, "bills", k)
  IN  /\ r.state = l.h.statesToSync[k]
      /\ Len(js) = 1
      /\ Len(bs) = IF js[1].ok THEN 1 ELSE 0
      /\ r.success <=> (js[1].ok /\ bs[1].ok)
      /\ r.success => DOMAIN r = {"state", "success", "synced", "total"}
      /\ ~r.success => DOMAIN r = {"state", "success", "error"}

C13_JurisdictionFailureIsolated ==
  \A i \in Invocations :
    LET l == inv[i]
    IN  /\ (Serving(i) /\ l.pc # "responded") =>
             /\ Len(l.h.results) = l.h.hi - 1
             /\ l.h.hi <= Len(l.h.statesToSync)
        /\ (Responded(i) /\ l.h.status = 200) =>
             Len(l.h.results) = Len(l.h.statesToSync)
        /\ Serving(i) => \A k \in 1..Len(l.h.results) : ResultRight(l, k)

\* The request has been answered with three entries: the first is a failure and
\* the later ones are successes.
C13_Witness ==
  \E i \in Invocations :
    /\ Responded(i) /\ inv[i].h.status = 200
    /\ Len(inv[i].h.results) = 3
    /\ ~inv[i].h.results[1].success
    /\ inv[i].h.results[2].success /\ inv[i].h.results[3].success
    /\ inv[i].h.response.results = inv[i].h.results

(***************************************************************************)
(* C14.  Every response of the manual endpoint has status 200, 400, 401 or *)
(* 405, and an authenticated POST that names at least one jurisdiction     *)
(* gets 200 with a success flag and a results array, whatever fails.       *)
(***************************************************************************)
\* The body of the request names a jurisdiction.
NamesJurisdiction(body) == HasTrigger(body) /\ Len(StatesToSync(body)) > 0

C14_StatusCodes ==
  \A i \in Invocations :
    Responded(i) =>
      /\ inv[i].h.status \in {200, 400, 401, 405}
      /\ (AuthenticatedPost(i) /\ NamesJurisdiction(inv[i].h.body)) =>
           /\ inv[i].h.status = 200
           /\ {"success", "results"} \subseteq DOMAIN inv[i].h.response

\* The same, for the requests that carry a body.
C14_StatusCodesWithBody ==
  \A i \in Invocations :
    (Responded(i) /\ inv[i].h.body.present) =>
      /\ inv[i].h.status \in {200, 400, 401, 405}
      /\ (AuthenticatedPost(i) /\ NamesJurisdiction(inv[i].h.body)) =>
           /\ inv[i].h.status = 200
           /\ {"success", "results"} \subseteq DOMAIN inv[i].h.response

\* An authenticated POST without a body has been answered with 500.
C14_Witness ==
  \E i \in Invocations :
    /\ Responded(i) /\ AuthenticatedPost(i)
    /\ ~inv[i].h.body.present
    /\ inv[i].h.status = 500

(***************************************************************************)
(* C15.  A request whose Authorization header is not exactly the bearer    *)
(* form of WEBHOOK_SECRET is answered at once, with 401, or 405 when it is *)
(* not a POST, and nothing is requested upstream or read or written in the *)
(* store for it.                                                           *)
(***************************************************************************)
C15_Unauthorized ==
  \A i \in Invocations :
    (Serving(i) /\ inv[i].h.authorization # "Bearer " \o WEBHOOK_SECRET) =>
      /\ inv[i].pc = "responded"
      /\ inv[i].h.status = IF inv[i].h.method = "POST" THEN 401 ELSE 405
      /\ NothingCalled(inv[i])
      /\ store = EmptyStore

\* A POST whose header has the secret with the scheme in lower case got 401, and
\* one with the secret alone too.
C15_Witness ==
  \E i \in Invocations :
    /\ Responded(i) /\ inv[i].h.method = "POST"
    /\ inv[i].h.authorization = "bearer " \o WEBHOOK_SECRET
    /\ inv[i].h.body = Body(Missing, StatesArray(<<ca, dc>>))
    /\ inv[i].h.status = 401

(***************************************************************************)
(* C16.  An authenticated POST with neither a state value nor a states     *)
(* array gets 400 with an error, and nothing is requested upstream or      *)
(* written; a request that gives both has its states array synced.         *)
(***************************************************************************)
C16_MissingTrigger ==
  \A i \in Invocations :
    AuthenticatedPost(i) =>
      LET body == inv[i].h.body
      IN  /\ ~(StateTruthy(body.state) \/ (body.states.given /\ body.states.array)) =>
               /\ inv[i].pc = "responded"
               /\ inv[i].h.status = 400
               /\ "error" \in DOMAIN inv[i].h.response
               /\ NothingCalled(inv[i])
               /\ store = EmptyStore
          /\ (StateTruthy(body.state) /\ body.states.given /\ body.states.array) =>
               inv[i].h.statesToSync = body.states.items

\* The same, for the requests that carry a body.
C16_MissingTriggerWithBody ==
  \A i \in Invocations :
    (AuthenticatedPost(i) /\ inv[i].h.body.present) =>
      LET body == inv[i].h.body
      IN  /\ ~(StateTruthy(body.state) \/ (body.states.given /\ body.states.array)) =>
               /\ inv[i].pc = "responded"
               /\ inv[i].h.status = 400
               /\ "error" \in DOMAIN inv[i].h.response
               /\ NothingCalled(inv[i])
               /\ store = EmptyStore
          /\ (StateTruthy(body.state) /\ body.states.given /\ body.states.array) =>
               inv[i].h.statesToSync = body.states.items

\* An authenticated POST without a body, which gives neither, got 500 and not 400.
C16_Witness ==
  \E i \in Invocations :
    /\ Responded(i) /\ AuthenticatedPost(i)
    /\ ~inv[i].h.body.present
    /\ ~HasTrigger(inv[i].h.body)
    /\ inv[i].h.status # 400
    /\ NothingCalled(inv[i])

AllSucceeded(l) ==
  /\ \A k \in 1..Len(l.log) : l.log[k].ok
  /\ \A k \in 1..Len(l.requests) : l.requests[k].ok
  /\ \A k \in 1..Len(l.fetches) : l.fetches[k].ok

\* The sponsors of a bill: the persons of its sponsorships that are not null.
SponsorsOf(bill) ==
  SelectSeq([k \in 1..Len(bill.sponsorships) |-> bill.sponsorships[k].person],
            LAMBDA p : ~p.null)

\* At most 10 sponsors, each with an ID, no ID twice.
FewDistinctSponsors(people) ==
  /\ Len(people) <= 10
  /\ \A a \in 1..Len(people) : Truthy(people[a].id)
  /\ \A a, b \in 1..Len(people) : a # b => people[a].id # people[b].id

\* At most 10 subjects, no canonical name twice.
FewDistinctSubjects(subjects) ==
  /\ Len(subjects) <= 10
  /\ \A a, b \in 1..Len(subjects) :
       a # b => formatSubjectName(subjects[a]) # formatSubjectName(subjects[b])

\* A field set links exactly n records of a table through a field, each once.
LinksExactly(data, field, n, table) ==
  IF n = 0
  THEN field \notin DOMAIN data
  ELSE /\ field \in DOMAIN data
       /\ Len(data[field]) = n
       /\ Cardinality(Range(data[field])) = n
       /\ Range(data[field]) \subseteq IdsOf(table)

C18_EndToEndLinks ==
  \A i \in Invocations :
    LET l == inv[i]
    IN  AllSucceeded(l) =>
          /\ (SubjectsReturned(i) /\ FewDistinctSponsors(SponsorsOf(l.bills[l.bi]))
                /\ FewDistinctSubjects(l.bills[l.bi].subject)) =>
               /\ LinksExactly(l.call.data, "Sponsors", Len(SponsorsOf(l.bills[l.bi])),
                               store["Legislators"])
               /\ LinksExactly(l.call.data, "Subject Areas", Len(l.bills[l.bi].subject),
                               store["Subjects"])
          /\ (l.last.ok /\ l.last.site = "bill") =>
               /\ l.last.ret \in IdsOf(store["Bills"])
               /\ \A field \in {"Sponsors", "Subject Areas"} \cap DOMAIN l.last.data :
                    RecordOf(store["Bills"], l.last.ret).fields[field] = l.last.data[field]
          /\ ReturnedOk(i) => l.syncedCount = Len(l.bills)

\* Ten bills with 1 sponsor and 2 subjects each have been synced: synced 10 of
\* total 10, and ten Bills records with 1 Sponsors link and 2 Subject Areas links.
C18_Witness ==
  \E i \in Invocations :
    /\ ReturnedOk(i) /\ AllSucceeded(inv[i])
    /\ Len(inv[i].bills) = 10 /\ inv[i].syncedCount = 10
    /\ Len(store["Bills"]) = 10
    /\ \A k \in 1..10 :
         /\ Len(store["Bills"][k].fields["Sponsors"]) = 1
         /\ Len(store["Bills"][k].fields["Subject Areas"]) = 2
         /\ Range(store["Bills"][k].fields["Sponsors"]) \subseteq IdsOf(store["Legislators"])
         /\ Range(store["Bills"][k].fields["Subject Areas"]) = IdsOf(store["Subjects"])

(***************************************************************************)
(* What the scheduled run has posted.                                      *)
(***************************************************************************)
RECURSIVE Flatten(_)
\* The batches of a sequence of batches, one after another.
Flatten(batches) ==
  IF batches = <<>> THEN <<>> ELSE batches[1] \o Flatten(Tail(batches))

\* The jurisdictions the run has invoked the manual endpoint for, in order.
Posted == Flatten(sched.posts)

\* The authorized run has responded.
SchedDone == sched.pc = "responded" /\ sched.status = 200

(***************************************************************************)
(* C19.  An authenticated scheduled run invokes the manual endpoint once   *)
(* for each jurisdiction of its fixed list, in list order, in consecutive  *)
(* groups of at most 5, and makes no other invocation.  The list has 52    *)
(* jurisdictions (the 50 states, dc and pr), so the groups are ten of 5    *)
(* and a last one of 2.                                                    *)
(***************************************************************************)
C19_ScheduledCoverage ==
  /\ Posted = SubSeq(states, 1, Len(Posted))
  /\ \A b \in 1..Len(sched.posts) :
       /\ Len(sched.posts[b]) >= 1
       /\ Len(sched.posts[b]) <= 5
       /\ b < Len(sched.posts) => Len(sched.posts[b]) = 5
  /\ SchedDone =>
       /\ Posted = states
       /\ Len(Posted) = 52
       /\ Cardinality(Range(Posted)) = 52
       /\ Len(sched.posts) = 11
       /\ Len(sched.posts[11]) = 2
  /\ (sched.pc = "responded" /\ sched.status # 200) => sched.posts = <<>>

\* The statement with the list taken to have 50 jurisdictions.
C19_FiftyJurisdictions ==
  /\ Posted = SubSeq(states, 1, Len(Posted))
  /\ \A b \in 1..Len(sched.posts) : Len(sched.posts[b]) <= 5
  /\ SchedDone =>
       /\ Len(Posted) = 50
       /\ Cardinality(Range(Posted)) = 50

\* The run has responded after 11 groups, the last of them dc and pr.
C19_Witness ==
  /\ SchedDone
  /\ Len(sched.posts) = 11
  /\ sched.posts[11] = <<"dc", "pr">>
  /\ \A s \in Range(states) : sched.answers[s] # "none"

(***************************************************************************)
(* C20.  When the scheduled run responds, every jurisdiction of the list   *)
(* is in exactly one of results.success and results.failed, successCount   *)
(* + failedCount is the length of the list, an invocation that failed or   *)
(* threw has prevented none of the others, and the status is 200.          *)
(***************************************************************************)
C20_ScheduledAccounting ==
  /\ \A s \in Range(states) :
       /\ sched.success[s] + sched.failed[s] <= 1
       /\ (sched.answers[s] # "none") <=> (sched.success[s] + sched.failed[s] = 1)
  /\ (sched.pc = "responded" /\ sched.authorization = "Bearer " \o CRON_SECRET) =>
       /\ sched.status = 200
       /\ \A s \in Range(states) : sched.success[s] + sched.failed[s] = 1
       /\ sched.response.successCount + sched.response.failedCount = Len(states)
       /\ sched.response.successCount = Cardinality({s \in Range(states) : sched.success[s] = 1})
       /\ sched.response.failedCount = Cardinality({s \in Range(states) : sched.failed[s] = 1})
       /\ \A s \in Range(states) : sched.answers[s] # "none"

\* The run has responded 200 with 51 successes and 1 failure: the invocation for
\* the first jurisdiction threw, and every other one was made and answered.
C20_Witness ==
  /\ SchedDone
  /\ sched.answers["al"] = "threw" /\ sched.failed["al"] = 1
  /\ sched.response.successCount = 51
  /\ sched.response.failedCount = 1

(***************************************************************************)
(* C21.  A cron request whose Authorization header is not exactly the      *)
(* bearer form of CRON_SECRET is answered 401, and the run invokes the     *)
(* manual endpoint for no jurisdiction; a run that does invoke it carried  *)
(* exactly that header.                                                    *)
(***************************************************************************)
C21_ScheduledUnauthorized ==
  /\ (sched.pc # "idle" /\ sched.authorization # "Bearer " \o CRON_SECRET) =>
       /\ sched.pc = "responded"
       /\ sched.status = 401
       /\ sched.response = [error |-> "Unauthorized"]
       /\ sched.posts = <<>>
       /\ sched.pending = {}
       /\ \A s \in Range(states) : sched.answers[s] = "none"
  /\ sched.posts # <<>> => sched.authorization = "Bearer " \o CRON_SECRET

\* A cron request carrying the bare secret, without the bearer prefix, has been
\* answered 401 with nothing posted.
C21_Witness ==
  /\ sched.pc = "responded"
  /\ sched.authorization = CRON_SECRET
  /\ sched.status = 401
  /\ sched.posts = <<>>

(***************************************************************************)
(* Helpers for the claims about the text helpers.                          *)
(***************************************************************************)
\* The helper fn has been called on an argument.
Called(fn) == calc.fn = fn /\ calc.pass = 1

Statuses ==
  {"Introduced", "In Committee", "Passed House", "Passed Senate", "Enacted", "Vetoed", "Failed"}

\* The status the ordered rules give a text holding exactly the keywords kws.
FirstRule(kws) ==
  IF kws \cap {"signed", "enacted"} # {} THEN "Enacted"
  ELSE IF "vetoed" \in kws THEN "Vetoed"
  ELSE IF kws \cap {"failed", "died"} # {} THEN "Failed"
  ELSE IF {"passed", "senate"} \subseteq kws THEN "Passed Senate"
  ELSE IF {"passed", "house"} \subseteq kws THEN "Passed House"
  ELSE IF "committee" \in kws THEN "In Committee"
  ELSE "Introduced"

(***************************************************************************)
(* C22.  determineStatus returns the status of the first rule, in the      *)
(* order Enacted, Vetoed, Failed, Passed Senate, Passed House, In          *)
(* Committee, that the keywords present in the latest-action text satisfy, *)
(* whatever their case, and Introduced when none does or the description   *)
(* is absent or empty; the result is one of the seven statuses.            *)
(***************************************************************************)
C22_StatusFirstMatch ==
  Called("determineStatus") =>
    /\ calc.out \in Statuses
    /\ calc.arg.kind = "string" /\ calc.arg.text # <<>> => calc.out = FirstRule(calc.given)
    /\ Falsy(calc.arg) => calc.out = "Introduced"

\* A text holding signed, vetoed, passed, senate and committee together has
\* been given the status of the earliest rule.
C22_Witness ==
  /\ Called("determineStatus")
  /\ calc.given = {"signed", "vetoed", "passed", "senate", "committee"}
  /\ calc.out = "Enacted"

\* s begins with p.
StartsWith(s, p) == Len(s) >= Len(p) /\ SubSeq(s, 1, Len(p)) = p

(***************************************************************************)
(* C23.  normalizeDate returns null for a null, absent or empty input, the *)
(* leading YYYY-MM-DD of any string that starts with one, whether a bare   *)
(* date or a full timestamp, and the input itself when the string has no   *)
(* such prefix and does not parse as a date; it throws for no input, a     *)
(* value that is not a string included.                                    *)
(***************************************************************************)
C23_DateNormalization ==
  Called("normalizeDate") =>
    /\ calc.outcome = "returned"
    /\ calc.arg \in {JsNull, JsUndefined, Str(<<>>)} => calc.out = JsNull
    /\ \A p \in DatePrefixes :
         calc.arg.kind = "string" /\ StartsWith(calc.arg.text, p) => calc.out = Str(p)
    /\ calc.arg.kind = "string" /\ calc.arg.text \in Unparsable => calc.out = calc.arg
    /\ calc.arg.kind = "number" /\ ~Falsy(calc.arg) => calc.out = calc.arg

\* A full timestamp has been cut down to its date.
C23_Witness ==
  /\ Called("normalizeDate")
  /\ calc.arg = Str(<<"2","0","2","5","-","0","2","-","1","9","T","0","5",":","0","0",":","0","0","+","0","0",":","0","0">>)
  /\ calc.out = Str(<<"2","0","2","5","-","0","2","-","1","9">>)

\* A space goes before the character at k: it is a capital after a small
\* letter, or a capital between a capital and a small letter.
SpaceBefore(x, k) ==
  /\ k > 1
  /\ \/ IsLower(x[k - 1]) /\ IsUpper(x[k])
     \/ k < Len(x) /\ IsUpper(x[k - 1]) /\ IsUpper(x[k]) /\ IsLower(x[k + 1])

RECURSIVE SpacedFrom(_, _)
SpacedFrom(x, k) ==
  IF k > Len(x) THEN <<>>
  ELSE (IF SpaceBefore(x, k) THEN <<" ">> ELSE <<>>) \o <<x[k]>> \o SpacedFrom(x, k + 1)

\* The label with its underscores made spaces and each segment in title case.
Titled(x) ==
  [k \in 1..Len(x) |->
     IF x[k] = "_" THEN " "
     ELSE IF k = 1 \/ x[k - 1] = "_" THEN ToUpperChar(x[k])
     ELSE ToLowerChar(x[k])]

\* The name the two casing rules give a label, before the override table.
Cased(x) ==
  IF \E k \in 1..Len(x) : x[k] = "_" THEN Titled(x)
  ELSE LET spaced == SpacedFrom(x, 1)
       IN  IF spaced = <<>> THEN <<>> ELSE <<ToUpperChar(spaced[1])>> \o Tail(spaced)

\* The name the casing rules and the override table give a label.
Canonical(x) ==
  LET lowered == ToLowerCase(Cased(x))
  IN  IF \E k \in 1..Len(commonWords) : commonWords[k].key = lowered
      THEN commonWords[CHOOSE k \in 1..Len(commonWords) : commonWords[k].key = lowered].value
      ELSE Cased(x)

\* The lower-cased name of the label is a name every object inherits.
SpellsInherited(x) == ToLowerCase(Cased(x)) \in InheritedKeys

(***************************************************************************)
(* C24.  For every label, formatSubjectName returns without throwing: a    *)
(* label with an underscore has its segments title-cased and joined by     *)
(* spaces, any other label gets a space at each lower-to-upper and         *)
(* upper-to-upper-lower transition and a capital first letter, and when    *)
(* the lower-cased result is a key of the override table the override      *)
(* value is returned instead.                                              *)
(***************************************************************************)
C24_Canonicalization ==
  Called("formatSubjectName") =>
    /\ calc.outcome = "returned"
    /\ calc.out = Str(Canonical(calc.arg.text))
    /\ calc.arg.text = <<"P","U","B","L","I","C","_","S","A","F","E","T","Y">> => calc.out = Str(<<"P","u","b","l","i","c"," ","S","a","f","e","t","y">>)
    /\ calc.arg.text = <<"L","a","w","e","n","f","o","r","c","e","m","e","n","t">> => calc.out = Str(<<"L","a","w"," ","E","n","f","o","r","c","e","m","e","n","t">>)

\* C24 for the labels whose lower-cased name is not a name every object
\* inherits: there the statement holds.
C24_CanonicalizationOwnKeys ==
  (Called("formatSubjectName") /\ ~SpellsInherited(calc.arg.text)) =>
    /\ calc.outcome = "returned"
    /\ calc.out = Str(Canonical(calc.arg.text))
    /\ calc.arg.text = <<"P","U","B","L","I","C","_","S","A","F","E","T","Y">> => calc.out = Str(<<"P","u","b","l","i","c"," ","S","a","f","e","t","y">>)
    /\ calc.arg.text = <<"L","a","w","e","n","f","o","r","c","e","m","e","n","t">> => calc.out = Str(<<"L","a","w"," ","E","n","f","o","r","c","e","m","e","n","t">>)

\* The label constructor, no key of the override table, has come back as a
\* function instead of the name Constructor.
C24_Witness ==
  /\ Called("formatSubjectName")
  /\ calc.arg = Str(<<"c","o","n","s","t","r","u","c","t","o","r">>)
  /\ Canonical(calc.arg.text) = <<"C","o","n","s","t","r","u","c","t","o","r">>
  /\ calc.out = Fn(ObjectFunction)

\* formatSubjectName has been applied to what its first call returned.
Reapplied == calc.fn = "formatSubjectName" /\ calc.pass = 2

(***************************************************************************)
(* C25.  Applying formatSubjectName to its own result changes nothing, for *)
(* every label, override-table results included: the second call returns   *)
(* and returns its argument.                                               *)
(***************************************************************************)
C25_Idempotent ==
  Reapplied =>
    /\ calc.outcome = "returned"
    /\ calc.out = calc.arg

\* C25 where the first call returned a string: there the statement holds.
C25_IdempotentOnNames ==
  (Reapplied /\ calc.arg.kind = "string") =>
    /\ calc.outcome = "returned"
    /\ calc.out = calc.arg

\* The first call returned a function, and the second call, handed that
\* function, threw.
C25_Witness ==
  /\ Reapplied
  /\ calc.arg = Fn(ObjectFunction)
  /\ calc.outcome = "threw"

\* An override value has been canonicalized again and come back unchanged.
C25_OverrideWitness ==
  /\ Reapplied
  /\ calc.arg = Str(<<"L","a","w"," ","E","n","f","o","r","c","e","m","e","n","t">>)
  /\ calc.out = calc.arg

\* The categories in the order they are to be tried.
CategoryOrder ==
  <<"Health", "Education", "Environment", "Economy", "Justice", "Transportation">>

\* Some keyword of the category named c occurs in the label, whatever its case.
Mentions(label, c) ==
  \E k \in 1..Len(categories) :
    /\ categories[k].category = c
    /\ \E kw \in KeywordsOf(k) : Includes(ToLowerCase(label), kw)

(***************************************************************************)
(* C26.  categorizeSubject returns the first category, in the order        *)
(* Health, Education, Environment, Economy, Justice, Transportation, one   *)
(* of whose keywords occurs in the raw label whatever its case, and Other  *)
(* when no keyword occurs; the result is one of those seven values.        *)
(***************************************************************************)
C26_CategoryFirstMatch ==
  Called("categorizeSubject") =>
    LET label == calc.arg.text
    IN  /\ calc.out \in Range(CategoryOrder) \cup {"Other"}
        /\ calc.out = "Other" <=> \A c \in Range(CategoryOrder) : ~Mentions(label, c)
        /\ \A n \in 1..Len(CategoryOrder) :
             calc.out = CategoryOrder[n] <=>
               /\ Mentions(label, CategoryOrder[n])
               /\ \A m \in 1..(n - 1) : ~Mentions(label, CategoryOrder[m])

\* A label naming a Transportation keyword before an Economy keyword has been
\* put in Economy, the earlier category.
C26_Witness ==
  /\ Called("categorizeSubject")
  /\ calc.arg = Str(<<"V","e","h","i","c","l","e","T","a","x">>)
  /\ calc.out = "Economy"

(***************************************************************************)
(* What the log says about syncState.                                      *)
(***************************************************************************)
\* The syncState calls of all invocations that returned a record ID, each
\* with the jurisdiction code it was for.
StateSyncs ==
  UNION { { [i |-> i, hi |-> inv[i].log[k].hi, ret |-> inv[i].log[k].ret,
             code |-> Show(inv[i].h.statesToSync[inv[i].log[k].hi])] :
              k \in {n \in 1..Len(inv[i].log) :
                       inv[i].log[n].site = "state" /\ inv[i].log[n].ok} } :
          i \in Invocations }

\* The States records written for the jurisdiction of that code.
StateRecords(code) ==
  {k \in 1..Len(store["States"]) :
     store["States"][k].fields["State Name"] = upstream.jurisdictions[code].name}

\* syncState is at its findOrCreateRecord for invocation i.
InState(i) == inv[i].site = "state" /\ inv[i].pc \in {"query", "update", "create"}

(***************************************************************************)
(* C27.  syncState reconciles on the field Abbreviation, by the            *)
(* upper-cased two-letter code when the identifier holds '/state:<cc>/'    *)
(* and by the display name otherwise; in both cases a second sync of the   *)
(* same jurisdiction returns the record of the first and the collection    *)
(* holds one record for the jurisdiction, not two.                         *)
(***************************************************************************)
C27_StateKey ==
  /\ \A i \in Invocations :
       InState(i) =>
         /\ inv[i].call.table = "States" /\ inv[i].call.field = "Abbreviation"
         /\ inv[i].state = ca => inv[i].call.value = "CA"
         /\ inv[i].state = dc => inv[i].call.value = "District of Columbia"
  /\ \A a, b \in StateSyncs : a.code = b.code => a.ret = b.ret
  /\ \A code \in DOMAIN upstream.jurisdictions : Cardinality(StateRecords(code)) <= 1

\* C27 for the jurisdictions whose identifier holds '/state:<cc>/': there the
\* statement holds.
C27_StateKeyByAbbreviation ==
  /\ \A i \in Invocations :
       InState(i) =>
         /\ inv[i].call.table = "States" /\ inv[i].call.field = "Abbreviation"
         /\ inv[i].state = ca => inv[i].call.value = "CA"
         /\ inv[i].state = dc => inv[i].call.value = "District of Columbia"
  /\ \A a, b \in StateSyncs : a.code = b.code /\ a.code = "ca" => a.ret = b.ret
  /\ Cardinality(StateRecords("ca")) <= 1

\* The District of Columbia, whose identifier holds no '/state:<cc>/', has been
\* synced twice, and the second sync created a second record.
C27_Witness ==
  /\ \E a, b \in StateSyncs : a.code = "dc" /\ b.code = "dc" /\ a.hi < b.hi /\ a.ret # b.ret
  /\ Cardinality(StateRecords("dc")) = 2

\* California has been synced twice, and the second sync updated the record
\* of the first.
C27_AbbreviationWitness ==
  /\ \E a, b \in StateSyncs : a.code = "ca" /\ b.code = "ca" /\ a.hi < b.hi /\ a.ret = b.ret
  /\ Cardinality(StateRecords("ca")) = 1

\* The internal IDs of the records a table holds.
RecordIds(table) == {table[k].id : k \in 1..Len(table)}

(***************************************************************************)
(* C28.  No step of a sync removes a record: in every collection the       *)
(* record IDs after the step include the record IDs before it, and the     *)
(* number of records does not go down.                                     *)
(***************************************************************************)
C28_NoDeletion ==
  [][\A t \in Tables :
       /\ RecordIds(store[t]) \subseteq RecordIds(store'[t])
       /\ Len(store'[t]) >= Len(store[t])]_vars

\* A second run has updated a bill that the first run created, alongside
\* legislator and subject records, and all of them are still there.
C28_Witness ==
  /\ \E i \in Invocations :
       /\ inv[i].last.ok /\ inv[i].last.table = "Bills" /\ inv[i].last.found # 0
       /\ inv[i].last.found \in RecordIds(store["Bills"])
  /\ Len(store["Legislators"]) >= 1
  /\ Len(store["Subjects"]) >= 1

\* Every GET /people of the current bill of invocation l failed.
AllChunksFailed(l) ==
  /\ Len(l.requests) > 0
  /\ \A r \in 1..Len(l.requests) : ~l.requests[r].ok

\* No Legislators reconcile of the current bill of invocation l failed.
LegislatorCallsOk(l) ==
  \A k \in 1..Len(l.log) :
    (l.log[k].site = "leg" /\ l.log[k].hi = l.h.hi /\ l.log[k].bi = l.bi) => l.log[k].ok

(***************************************************************************)
(* C29.  When every GET /people of a bill's sponsors fails, each sponsor   *)
(* stub that has an ID is still reconciled into Legislators by its person  *)
(* ID, from the name and ID of the stub; with the store calls succeeding,  *)
(* syncLegislators returns one internal ID per stub, and the bill is       *)
(* reconciled with those IDs as its Sponsors.                              *)
(***************************************************************************)
C29_WholeSetFallback ==
  \A i \in Invocations :
    LET l == inv[i]
    IN  /\ (ChunksSettled(i) /\ AllChunksFailed(l)) => DOMAIN l.peopleMap = {}
        /\ (ChunksSettled(i) /\ AllChunksFailed(l) /\ l.site = "leg" /\ l.pc = "query") =>
             LET stub == l.people[l.pi]
             IN  Truthy(stub.id) =>
                   /\ l.call.table = "Legislators"
                   /\ l.call.field = "OpenStates ID"
                   /\ l.call.value = stub.id
                   /\ l.call.data = StubData(stub)
        /\ (SubjectsReturned(i) /\ AllChunksFailed(l) /\ LegislatorCallsOk(l)) =>
             /\ Len(l.sponsorIds) = Len(l.people)
             /\ \A k \in 1..Len(l.people) :
                  Truthy(l.people[k].id) =>
                    /\ l.sponsorIds[k] \in IdsOf(store["Legislators"])
                    /\ FieldOf(RecordOf(store["Legislators"], l.sponsorIds[k]), "OpenStates ID")
                         = l.people[k].id
             /\ l.call.table = "Bills"
             /\ l.call.data["Sponsors"] = Slice(l.sponsorIds, 0, 10)

\* The one GET /people of a bill with two sponsors failed, both were reconciled
\* from their stubs, and the bill is being reconciled with the two IDs.
C29_Witness ==
  \E i \in Invocations :
    LET l == inv[i]
    IN  /\ SubjectsReturned(i) /\ AllChunksFailed(l)
        /\ Len(l.people) = 2 /\ Len(l.sponsorIds) = 2
        /\ \A k \in 1..2 :
             FieldOf(RecordOf(store["Legislators"], l.sponsorIds[k]), "OpenStates ID")
               = l.people[k].id
        /\ l.call.table = "Bills"
        /\ l.call.data["Sponsors"] = l.sponsorIds

(***************************************************************************)
(* What the last Legislators reconcile of an invocation wrote.             *)
(***************************************************************************)
\* The upstream attribute each Legislators field is written from.
AttributeOf ==
  [f \in {"Full Name", "OpenStates ID", "First Name", "Party"} |->
     CASE f = "Full Name" -> "name"
       [] f = "OpenStates ID" -> "id"
       [] f = "First Name" -> "given_name"
       [] f = "Party" -> "party"]

\* The person data lacks the attribute behind field f.
Lacks(person, f) == ~Truthy(person[AttributeOf[f]])

\* The last call of invocation l updated an existing Legislators record.
LegislatorUpdated(l) ==
  l.last.site = "leg" /\ l.last.ok /\ l.last.found # 0 /\ l.pi > 1

\* The person data that update was made from.
UpdatedFrom(l) == FullPersonData(l.peopleMap, l.people[l.pi - 1])

(***************************************************************************)
(* C30.  The field set written for a legislator holds only attributes      *)
(* present upstream, none of them as an empty value; so an update of an    *)
(* existing legislator from its stub alone leaves every stored field the   *)
(* stub has no attribute for as it was.                                    *)
(***************************************************************************)
C30_SparseWrites ==
  \A i \in Invocations :
    LET l == inv[i]
    IN  /\ (l.site = "leg" /\ l.pc \in {"query", "update", "create"}) =>
             \A f \in DOMAIN l.call.data : l.call.data[f] # ""
        /\ LegislatorUpdated(l) =>
             LET before == RecordOf(l.last.pre, l.last.found).fields
                 after  == RecordOf(l.last.post, l.last.found).fields
             IN  \A f \in DOMAIN before :
                   Lacks(UpdatedFrom(l), f) => (f \in DOMAIN after /\ after[f] = before[f])

\* Full Name and OpenStates ID are always in the field set.
AlwaysWritten == {"Full Name", "OpenStates ID"}

\* C30 for the fields other than Full Name and OpenStates ID: there the
\* statement holds.
C30_SparseOptionalWrites ==
  \A i \in Invocations :
    LET l == inv[i]
    IN  /\ (l.site = "leg" /\ l.pc \in {"query", "update", "create"}) =>
             \A f \in DOMAIN l.call.data \ AlwaysWritten : l.call.data[f] # ""
        /\ LegislatorUpdated(l) =>
             LET before == RecordOf(l.last.pre, l.last.found).fields
                 after  == RecordOf(l.last.post, l.last.found).fields
             IN  \A f \in DOMAIN before \ AlwaysWritten :
                   Lacks(UpdatedFrom(l), f) => (f \in DOMAIN after /\ after[f] = before[f])

\* A legislator stored with its full name has been updated from a stub without
\* a name, after GET /people failed: the stored name has been replaced by the
\* empty string, while First Name and Party are as they were.
C30_Witness ==
  \E i \in Invocations :
    LET l == inv[i]
    IN  /\ LegislatorUpdated(l)
        /\ AllChunksFailed(l)
        /\ RecordOf(l.last.pre, l.last.found).fields["Full Name"] = FullPerson("p1").name
        /\ RecordOf(l.last.post, l.last.found).fields["Full Name"] = ""
        /\ RecordOf(l.last.post, l.last.found).fields["Party"] = FullPerson("p1").party

(***************************************************************************)
(* What the logs say about the order of a request's calls.                 *)
(***************************************************************************)
\* The States reconciles that invocation l ended for jurisdiction k.
StateCallsFor(l, k) == SelectSeq(l.log, LAMBDA e : e.site = "state" /\ e.hi = k)

\* The jurisdiction indices of a sequence of log entries never go down.
InJurisdictionOrder(entries) ==
  \A a, b \in 1..Len(entries) : a < b => entries[a].hi <= entries[b].hi

\* Invocation l has issued the bills request of jurisdiction k.
BillsRequested(l, k) ==
  \/ Len(FetchesFor(l, "bills", k)) > 0
  \/ l.h.hi = k /\ l.pc = "fetchBills"

(***************************************************************************)
(* C31.  Within one request the jurisdictions are processed one after      *)
(* another, in request order, and for each of them the jurisdiction fetch  *)
(* has answered and the States reconcile has ended, with or without an     *)
(* error, before the bills request of that jurisdiction is issued.         *)
(***************************************************************************)
C31_JurisdictionBeforeBills ==
  \A i \in Invocations :
    Serving(i) =>
      LET l == inv[i]
      IN  /\ InJurisdictionOrder(l.fetches) /\ InJurisdictionOrder(l.log)
          /\ \A k \in 1..Len(l.fetches) : l.fetches[k].hi <= l.h.hi
          /\ \A k \in 1..Len(l.log) : l.log[k].hi <= l.h.hi
          /\ \A k \in 1..Len(l.h.statesToSync) :
               /\ BillsRequested(l, k) =>
                    /\ Len(FetchesFor(l, "jurisdiction", k)) = 1
                    /\ FetchesFor(l, "jurisdiction", k)[1].ok
                    /\ Len(StateCallsFor(l, k)) = 1
               /\ Len(StateCallsFor(l, k)) > 0 =>
                    /\ Len(FetchesFor(l, "jurisdiction", k)) = 1
                    /\ FetchesFor(l, "jurisdiction", k)[1].ok
          /\ l.pc = "jurisdiction" =>
               /\ Len(l.h.results) = l.h.hi - 1
               /\ FetchesFor(l, "jurisdiction", l.h.hi) = <<>>
               /\ FetchesFor(l, "bills", l.h.hi) = <<>>
               /\ StateCallsFor(l, l.h.hi) = <<>>
          /\ (l.site = "state" /\ l.pc \in {"query", "update", "create"}) =>
               ~BillsRequested(l, l.h.hi)

\* The bills request of the second jurisdiction of a request is in flight: the
\* first jurisdiction has its result, and the second has been fetched and its
\* States reconcile has ended.
C31_Witness ==
  \E i \in Invocations :
    LET l == inv[i]
    IN  /\ Serving(i) /\ l.pc = "fetchBills" /\ l.h.hi = 2
        /\ Len(l.h.results) = 1
        /\ Len(FetchesFor(l, "bills", 1)) = 1
        /\ Len(StateCallsFor(l, 2)) = 1
        /\ FetchesFor(l, "bills", 2) = <<>>

(***************************************************************************)
(* C32.  The Bills reconcile of a bill is issued only when every           *)
(* legislator reconcile and every subject reconcile of that bill has       *)
(* ended, and in every state each ID in the Sponsors of a stored bill is   *)
(* the ID of a Legislators record and each ID in its Subject Areas is the  *)
(* ID of a Subjects record.                                                *)
(***************************************************************************)
\* The IDs a record links to through a field.
LinkedIds(rec, field) ==
  IF field \in DOMAIN rec.fields THEN Range(rec.fields[field]) ELSE {}

\* The IDs a field set links to through a field.
LinkedBy(data, field) == IF field \in DOMAIN data THEN Range(data[field]) ELSE {}

\* The Bills reconcile of the current bill of invocation i is in flight.
BillReconcileIssued(i) ==
  inv[i].site = "bill" /\ inv[i].pc \in {"query", "update", "create"}

C32_LinksResolve ==
  /\ \A k \in 1..Len(store["Bills"]) :
       /\ LinkedIds(store["Bills"][k], "Sponsors") \subseteq IdsOf(store["Legislators"])
       /\ LinkedIds(store["Bills"][k], "Subject Areas") \subseteq IdsOf(store["Subjects"])
  /\ \A i \in Invocations :
       BillReconcileIssued(i) =>
         LET l == inv[i]
         IN  /\ Len(CallsOfBill(l, "leg", l.bi))
                  = IF Len(l.personIds) > 0 THEN Len(l.people) ELSE 0
             /\ Len(CallsOfBill(l, "subj", l.bi)) = Len(l.bills[l.bi].subject)
             /\ Len(CallsOfBill(l, "bill", l.bi)) = 0
             /\ LinkedBy(l.call.data, "Sponsors") \subseteq IdsOf(store["Legislators"])
             /\ LinkedBy(l.call.data, "Subject Areas") \subseteq IdsOf(store["Subjects"])

\* A stored bill links to two legislators and to a subject, all of them stored,
\* and the reconciles of its sponsors and subjects ended before its own.
C32_Witness ==
  \E i \in Invocations : \E k \in 1..Len(store["Bills"]) :
    LET l == inv[i]
    IN  /\ l.last.ok /\ l.last.site = "bill" /\ l.last.ret = store["Bills"][k].id
        /\ Cardinality(LinkedIds(store["Bills"][k], "Sponsors")) >= 2
        /\ Cardinality(LinkedIds(store["Bills"][k], "Subject Areas")) >= 1
        /\ LinkedIds(store["Bills"][k], "Sponsors") \subseteq IdsOf(store["Legislators"])
        /\ LinkedIds(store["Bills"][k], "Subject Areas") \subseteq IdsOf(store["Subjects"])
        /\ Len(CallsOfBill(l, "leg", l.bi - 1)) >= 2
        /\ Len(CallsOfBill(l, "subj", l.bi - 1)) >= 1

(***************************************************************************)
(* C33.  The scheduled run does not post a batch before every invocation   *)
(* of the batch before it has settled: the invocations in flight all       *)
(* belong to the batch posted last, so at most 5 are in flight.            *)
(***************************************************************************)
\* The jurisdictions of batch b whose invocation has not settled.
Unsettled(b) == {s \in Range(sched.posts[b]) : sched.answers[s] = "none"}

\* The jurisdictions whose invocation was posted and has not settled.
InFlight == UNION {Unsettled(b) : b \in 1..Len(sched.posts)}

C33_BatchBarrier ==
  LET flying == InFlight
      last   == Len(sched.posts)
  IN  /\ Cardinality(flying) <= 5
      /\ flying = sched.pending
      /\ \A b \in 1..last :
           b < last => \A s \in Range(sched.posts[b]) : sched.answers[s] # "none"
      /\ last > 0 => flying \subseteq Range(sched.posts[last])
      /\ sched.pc \in {"delay", "responded"} => flying = {}

\* The second batch is in flight whole, 5 invocations, and each invocation of the
\* first batch has settled, one of them by throwing.
C33_Witness ==
  /\ Len(sched.posts) = 2
  /\ Cardinality(InFlight) = 5
  /\ InFlight = Range(sched.posts[2])
  /\ \A s \in Range(sched.posts[1]) : sched.answers[s] # "none"
  /\ \E s \in Range(sched.posts[1]) : sched.answers[s] = "threw"

(***************************************************************************)
(* C34.  Nothing is retried.  Within one request to the manual endpoint    *)
(* the jurisdiction lookup and the bills request of a jurisdiction, each   *)
(* chunk of a bill's people, and the reconcile of each state, legislator,  *)
(* subject and bill are issued at most once; a reconcile is one query      *)
(* followed by at most one write; and a call that failed is not issued     *)
(* again: the run moves on to the next item.                               *)
(***************************************************************************)
\* The work item a log entry is the reconcile of.
ItemOf(e) ==
  CASE e.site = "leg"   -> <<e.site, e.hi, e.bi, e.pi>>
    [] e.site = "subj"  -> <<e.site, e.hi, e.bi, e.si>>
    [] e.site = "bill"  -> <<e.site, e.hi, e.bi, 0>>
    [] OTHER            -> <<e.site, e.hi, 0, 0>>

\* Every item of the log was reconciled once.
ReconciledOnce(l) ==
  \A a, b \in 1..Len(l.log) : a # b => ItemOf(l.log[a]) # ItemOf(l.log[b])

\* Every upstream request for a jurisdiction was made at most once.
FetchedOnce(l) ==
  \A a, b \in 1..Len(l.fetches) :
    a # b => <<l.fetches[a].kind, l.fetches[a].hi>> # <<l.fetches[b].kind, l.fetches[b].hi>>

\* The GET /people requests of the current bill carry consecutive chunks.
ChunkedOnce(l) ==
  /\ Len(l.requests) <= CeilDiv(Len(l.personIds), chunkSize)
  /\ \A r \in 1..Len(l.requests) :
       l.requests[r].ids = Slice(l.personIds, (r - 1) * chunkSize, r * chunkSize)

\* A step of invocation i ends exactly one remote call: a fetch, a chunk, the
\* query of a reconcile whose one write follows, or a reconcile.
OneCallEnds(i) ==
  LET l == inv[i]
      m == inv'[i]
  IN  \/ /\ l.pc \in {"jurisdiction", "fetchBills"}
         /\ Len(m.fetches) = Len(l.fetches) + 1
         /\ m.log = l.log
      \/ /\ l.pc = "chunk"
         /\ Len(m.requests) = Len(l.requests) + 1
         /\ m.ci = l.ci + chunkSize
         /\ m.log = l.log /\ m.fetches = l.fetches
      \/ /\ l.pc = "query" /\ m.pc \in {"update", "create"}
         /\ m.call = l.call /\ m.site = l.site
         /\ m.log = l.log /\ m.fetches = l.fetches
      \/ /\ l.pc \in {"query", "update", "create"}
         /\ Len(m.log) = Len(l.log) + 1
         /\ m.log[Len(m.log)].ok = m.last.ok
         /\ m.fetches = l.fetches

NoRetryStep ==
  \A i \in Invocations :
    (/\ inv[i].pc \notin {"idle", "done", "responded"}
     /\ (inv'[i] # inv[i] \/ failuresLeft' # failuresLeft))
      => OneCallEnds(i)

NoRetryState ==
  \A i \in Invocations :
    /\ ReconciledOnce(inv[i])
    /\ FetchedOnce(inv[i])
    /\ ChunkedOnce(inv[i])

C34_NoRetry == []NoRetryState /\ [][NoRetryStep]_vars

\* A request has been answered 200 after its bills request failed: the request
\* was made once and the jurisdiction's result is a failure.
C34_Witness ==
  \E i \in Invocations :
    LET l == inv[i]
    IN  /\ Responded(i) /\ l.h.status = 200
        /\ Len(l.h.statesToSync) = 1
        /\ Len(FetchesFor(l, "bills", 1)) = 1
        /\ ~FetchesFor(l, "bills", 1)[1].ok
        /\ Len(FetchesFor(l, "jurisdiction", 1)) = 1

(***************************************************************************)
(* C35.  Links are not cleared.  When syncLegislators returned no ID for   *)
(* a bill (no sponsor upstream, or every sponsor reconcile failed) the     *)
(* field set of the bill has no Sponsors, and the update of an existing    *)
(* bill with such a field set leaves the stored Sponsors as they were;     *)
(* the same holds for syncSubjects and Subject Areas.                      *)
(***************************************************************************)
\* What a record holds under a field, or that it holds nothing.
Stored(rec, field) ==
  IF field \in DOMAIN rec.fields THEN <<"set", rec.fields[field]>> ELSE <<"unset">>

\* The last call of invocation l updated an existing bill.
BillUpdated(l) == l.last.site = "bill" /\ l.last.ok /\ l.last.found # 0

C35_StaleLinksKept ==
  \A i \in Invocations :
    LET l == inv[i]
    IN  /\ SubjectsReturned(i) =>
             /\ Len(l.sponsorIds) = 0 => "Sponsors" \notin DOMAIN l.call.data
             /\ Len(l.subjectIds) = 0 => "Subject Areas" \notin DOMAIN l.call.data
        /\ BillUpdated(l) =>
             \A field \in {"Sponsors", "Subject Areas"} :
               field \notin DOMAIN l.last.data =>
                 Stored(RecordOf(l.last.post, l.last.found), field)
                   = Stored(RecordOf(l.last.pre, l.last.found), field)

\* A bill stored with two sponsors and a subject has been updated by a run in
\* which it had no sponsor and no subject upstream: the field set had neither
\* link field and the record links to what it linked to before.
C35_Witness ==
  \E i \in Invocations :
    LET l == inv[i]
    IN  /\ BillUpdated(l) /\ ~l.storeFailed /\ l.bills = <<BillEBare>>
        /\ DOMAIN l.last.data \cap {"Sponsors", "Subject Areas"} = {}
        /\ {"Sponsors", "Subject Areas"} \subseteq DOMAIN RecordOf(l.last.pre, l.last.found).fields
        /\ {"Sponsors", "Subject Areas"} \subseteq DOMAIN RecordOf(l.last.post, l.last.found).fields
        /\ Len(RecordOf(l.last.pre, l.last.found).fields["Sponsors"]) = 2
        /\ Len(RecordOf(l.last.pre, l.last.found).fields["Subject Areas"]) = 1
        /\ RecordOf(l.last.post, l.last.found).fields["Sponsors"]
             = RecordOf(l.last.pre, l.last.found).fields["Sponsors"]
        /\ RecordOf(l.last.post, l.last.found).fields["Subject Areas"]
             = RecordOf(l.last.pre, l.last.found).fields["Subject Areas"]

\* The same after a run in which the only sponsor's reconcile failed.
C35_FailedSponsorWitness ==
  \E i \in Invocations :
    LET l == inv[i]
    IN  /\ BillUpdated(l) /\ l.storeFailed
        /\ Len(l.bills[l.bi - 1].sponsorships) > 0
        /\ "Sponsors" \notin DOMAIN l.last.data
        /\ "Sponsors" \in DOMAIN RecordOf(l.last.pre, l.last.found).fields
        /\ "Sponsors" \in DOMAIN RecordOf(l.last.post, l.last.found).fields
        /\ Len(RecordOf(l.last.pre, l.last.found).fields["Sponsors"]) = 1
        /\ RecordOf(l.last.post, l.last.found).fields["Sponsors"]
             = RecordOf(l.last.pre, l.last.found).fields["Sponsors"]

(***************************************************************************)
(* C36.  A States reconcile that fails after the jurisdiction was fetched  *)
(* does not fail the jurisdiction: syncState returns without throwing, the *)
(* bills request follows, and the jurisdiction's result has success true   *)
(* when that request answers.  A result has success false only when the    *)
(* jurisdiction fetch or the bills fetch failed.                           *)
(***************************************************************************)
\* The States reconcile of jurisdiction k of invocation l ended with an error.
StateReconcileFailed(l, k) ==
  Len(StateCallsFor(l, k)) = 1 /\ ~StateCallsFor(l, k)[1].ok

C36_StateFailureSwallowed ==
  \A i \in Invocations :
    Serving(i) =>
      LET l == inv[i]
      IN  /\ \A k \in 1..Len(l.h.statesToSync) :
               StateReconcileFailed(l, k) =>
                 /\ BillsRequested(l, k)
                 /\ (l.h.hi = k /\ l.pc # "responded") =>
                      l.pc \in {"fetchBills", "chunk", "query", "update", "create"}
          /\ \A k \in 1..Len(l.h.results) :
               /\ StateReconcileFailed(l, k) =>
                    /\ Len(FetchesFor(l, "bills", k)) = 1
                    /\ l.h.results[k].success <=> FetchesFor(l, "bills", k)[1].ok
               /\ ~l.h.results[k].success <=>
                    \/ \E f \in Range(FetchesFor(l, "jurisdiction", k)) : ~f.ok
                    \/ \E f \in Range(FetchesFor(l, "bills", k)) : ~f.ok

\* A request for one jurisdiction has been answered: the States reconcile
\* failed, the bills were fetched and reconciled, and the result has success
\* true with both bills synced.
C36_Witness ==
  \E i \in Invocations :
    LET l == inv[i]
    IN  /\ Responded(i) /\ l.h.status = 200
        /\ Len(l.h.results) = 1
        /\ StateReconcileFailed(l, 1)
        /\ store["States"] = <<>>
        /\ l.h.results[1].success
        /\ l.h.results[1].synced = 2 /\ l.h.results[1].total = 2

(***************************************************************************)
(* C37.  The scheduled run judges an invocation by its HTTP status alone:  *)
(* a jurisdiction is pushed to results.success exactly when its            *)
(* invocation answered 2xx, and to results.failed exactly when it answered *)
(* another status or the request threw.  So a jurisdiction whose sync      *)
(* failed inside the manual endpoint, which answers 200 with success false *)
(* in the jurisdiction's result, is counted in successCount and not in     *)
(* failedCount.                                                            *)
(***************************************************************************)
\* What sched.answers holds for an invocation that answered 2xx.
OkAnswers == {ToString(status) : status \in OkStatuses}

C37_HttpLevelSuccess ==
  /\ \A s \in DOMAIN sched.answers :
       LET answer == sched.answers[s]
       IN  /\ sched.success[s] = 1 <=> answer \in OkAnswers
           /\ sched.failed[s] = 1 <=> (answer # "none" /\ answer \notin OkAnswers)
  /\ \A s \in sched.failedInside :
       /\ sched.answers[s] \in OkAnswers
       /\ sched.success[s] = 1 /\ sched.failed[s] = 0
  /\ SchedDone =>
       /\ sched.response.successCount
            = Cardinality({s \in Range(states) : sched.answers[s] \in OkAnswers})
       /\ sched.response.successCount >= Cardinality(sched.failedInside)
       /\ sched.response.failedCount
            = Cardinality({s \in Range(states) :
                             sched.answers[s] \notin OkAnswers \cup {"none"}})

\* The run has responded with successCount 52 and failedCount 0 although the
\* sync of ca failed inside the manual endpoint: the endpoint answered 200 and
\* ca is counted as a success.
C37_Witness ==
  /\ SchedDone
  /\ sched.failedInside = {"ca"}
  /\ sched.answers["ca"] = "200"
  /\ sched.success["ca"] = 1 /\ sched.failed["ca"] = 0
  /\ sched.response.successCount = 52
  /\ sched.response.failedCount = 0

(***************************************************************************)
(* C38.  syncLegislators returns one internal ID for each sponsor stub     *)
(* whose reconcile returned, in the order of the stubs; a stub whose       *)
(* reconcile failed is left out and the stubs after it are still           *)
(* reconciled, so the list is never longer than the list of stubs.  When   *)
(* no stub carries an ID the list is empty and syncLegislators has made    *)
(* no upstream request and no store call.                                  *)
(***************************************************************************)
C38_LegislatorIdsReturned ==
  \A i \in Invocations :
    LegislatorsReturned(i) =>
      LET l     == inv[i]
          calls == CallsOfBill(l, "leg", l.bi)
      IN  /\ Len(l.sponsorIds) <= Len(l.people)
          /\ IF Len(l.personIds) = 0
             THEN /\ l.sponsorIds = <<>>
                  /\ l.requests = <<>>
                  /\ calls = <<>>
             ELSE /\ [k \in 1..Len(calls) |-> calls[k].pi] = UpTo(Len(l.people))
                  /\ l.sponsorIds
                       = [k \in 1..Len(Returned(calls)) |-> Returned(calls)[k].ret]
                  /\ l.okPeople
                       = [k \in 1..Len(Returned(calls)) |-> Returned(calls)[k].pi]
                  /\ \A k \in 1..Len(l.sponsorIds) :
                       l.sponsorIds[k] \in IdsOf(store["Legislators"])

\* syncLegislators has returned two IDs for three stubs: the reconcile of the
\* second stub failed, and the IDs are those of the first and the third.
C38_Witness ==
  \E i \in Invocations :
    LET l     == inv[i]
        calls == CallsOfBill(l, "leg", l.bi)
    IN  /\ LegislatorsReturned(i)
        /\ Len(l.people) = 3 /\ Len(calls) = 3
        /\ calls[1].ok /\ ~calls[2].ok /\ calls[3].ok
        /\ l.sponsorIds = <<calls[1].ret, calls[3].ret>>

\* syncLegislators has returned the empty list for a single stub without an ID,
\* and nothing was requested or stored for it.
C38_WithoutIdWitness ==
  \E i \in Invocations :
    LET l == inv[i]
    IN  /\ LegislatorsReturned(i)
        /\ l.people = <<Anonymous>>
        /\ l.sponsorIds = <<>> /\ l.requests = <<>>
        /\ store["Legislators"] = <<>>

(***************************************************************************)
(* C39.  When every upstream and store call eventually returns or fails,   *)
(* every request to the manual endpoint is eventually answered, with 405,  *)
(* 401, 400, 200 or 500; it is answered exactly once; and once it is       *)
(* answered the handler has stopped: it makes no further call and writes   *)
(* nothing to the store.                                                   *)
(***************************************************************************)
\* A request is answered at most once, and it is answered when the handler is
\* at its end, with one of the five statuses.
AnsweredOnce ==
  \A i \in Invocations :
    Serving(i) =>
      /\ inv[i].h.responses = IF Responded(i) THEN 1 ELSE 0
      /\ Responded(i) => inv[i].h.status \in {405, 401, 400, 200, 500}

\* After the response nothing of the invocation or of the store changes.
StoppedAfterResponse ==
  \A i \in Invocations :
    Responded(i) => (inv'[i] = inv[i] /\ store' = store /\ nextId' = nextId)

C39_AnswersOnceAndStops ==
  /\ \A i \in Invocations : Serving(i) ~> Responded(i)
  /\ []AnsweredOnce
  /\ [][StoppedAfterResponse]_vars

\* A request for two jurisdictions has been answered once, with 200, after
\* calls of which one failed and with records written to the store.
C39_Witness ==
  \E i \in Invocations :
    LET l == inv[i]
    IN  /\ Responded(i) /\ l.h.status = 200 /\ l.h.responses = 1
        /\ Len(l.h.results) = 2
        /\ \E k \in 1..Len(l.log) : ~l.log[k].ok
        /\ Len(store["Bills"]) = 2

\* A request without a body has been answered once, with 500, and nothing was
\* called for it.
C39_ServerErrorWitness ==
  \E i \in Invocations :
    /\ Responded(i) /\ inv[i].h.status = 500 /\ inv[i].h.responses = 1
    /\ NothingCalled(inv[i])
====
